---- MODULE Spec2Model ----
(***************************************************************************)
(* Verification model of the virtual-assistant web client:                 *)
(*   - the account registry of AccountSwitcher (persisted account list,    *)
(*     legacy migration, upsert, quick switch protocol);                   *)
(*   - the streaming chat session of ChatInterface (send, persistence,     *)
(*     byte-stream-to-event decoding).                                     *)
(***************************************************************************)
EXTENDS Naturals, Integers, Sequences, FiniteSets, TLC

VARIABLES
    \* ---- account registry (AccountSwitcher) ----
    storeV2,        \* localStorage["recent_accounts_v2"]: [raw, val]
    storeLegacy,    \* localStorage["recent_accounts"]: [raw, val]
    accounts,       \* React state `accounts`
    mounted,        \* the component's mount effect has run
    clock,          \* logical time behind new Date().toISOString()
    lastUpserted,   \* email of the latest upsertAccount call (0: none yet)
    upserts,        \* number of upsertAccount calls made
    initPending,    \* init() of the mount effect has not finished yet
    \* ---- quick switch (AccountSwitcher, Auth page, auth collaborator) ----
    currentEmail,   \* React state `currentEmail` (0: "")
    session,        \* the auth collaborator's live session [email, gen]
    accepted,       \* accepted[e]: the collaborator accepts e's refresh token
    hint,           \* localStorage["switch_to_email"] (0: absent)
    view,           \* where control is: "app" or "auth"
    authQueryEmail, \* the email= query parameter of the sign-in view (0: none)
    authEmail,      \* the sign-in form's email field (0: empty)
    authLoaded,     \* the sign-in view's pre-fill effect has run
    notice,         \* the last toast shown by the switcher
    sw,             \* the switch attempt in flight
    swOutcome,      \* how the last finished switch attempt ended
    attempts,       \* number of switch attempts started
    exchangeCalls,  \* number of setSession / refreshSession calls made
    \* ---- stream decoding (ChatInterface.streamChat, the read loop) ----
    lines,          \* the response body as lines (each a sequence of characters)
    lastNewline,    \* the body's last line ends with "\n"
    pos,            \* number of characters the reader has delivered
    textBuffer,     \* `textBuffer`
    assistantContent, \* `assistantContent`
    dpc,            \* the read loop: "reading" or "done"
    sawDone,        \* the [DONE] line has been decoded in this run
    run,            \* 1: first decoding, 2: the replay against a fresh session
    firstContent,   \* the final content of the first decoding
    \* ---- chat session (ChatInterface, data and completion collaborators) ----
    messages,       \* React state `messages`: [role, content, turn]
    input,          \* React state `input` (0: empty)
    isLoading,      \* React state `isLoading`
    currentConversationId, \* React state (0: null)
    conversationIdRef,     \* conversationIdRef.current (0: null)
    chatSession,    \* the auth collaborator holds a session with an access token
    dbConversations, \* ids of the rows of table conversations
    dbMessages,     \* rows of table messages in insertion order
    pendingLoads,   \* loadConversation calls in flight
    snd,            \* the streamChat call in flight
    turns,          \* number of sends started
    chatNotice,     \* the last toast of the chat view
    titleCalls,     \* generateConversationTitle calls fired, by conversation id
    del,            \* the sidebar's deleteConversation call
    \* ---- the ChatInterface component without persistence ----
    quickMessages,  \* React state `messages`
    quickInput,     \* React state `input` (0: empty)
    quickIsLoading, \* React state `isLoading`
    quickSends,     \* the streamChat calls, by start order
    quickStarted,   \* number of streamChat calls started
    quickNotice,    \* the last toast
    \* ---- backend functions and the Settings page ----
    identities,     \* user ids the auth service knows
    owned,          \* per table, the user ids that own rows in it
    tie,            \* what the store does with conversations of a deleted identity
    req,            \* the function request being served
    acts,           \* what the function did for the request being served
    authedDeletes,  \* user ids a verified delete-account request was made for
    dl,             \* Settings.handleDeleteAccount
    relay,          \* the chat function relaying the gateway reply
    body,           \* the messages of the request body the chat client built
    verdict,        \* what the chat function answered to that body
    \* ---- auth events of AccountSwitcher ----
    handlers,       \* onAuthStateChange callbacks past their await
    delivered       \* auth events delivered so far

accVars == <<storeV2, storeLegacy, accounts, mounted, clock, lastUpserted, upserts,
             initPending>>

swVars == <<currentEmail, session, accepted, hint, view, authQueryEmail, authEmail, authLoaded, notice,
            sw, swOutcome, attempts, exchangeCalls>>

decVars == <<lines, lastNewline, pos, textBuffer, assistantContent, dpc, sawDone,
             run, firstContent>>

chatVars == <<messages, input, isLoading, currentConversationId, conversationIdRef,
              chatSession, dbConversations, dbMessages, pendingLoads, snd, turns,
              chatNotice, titleCalls, del>>

quickVars == <<quickMessages, quickInput, quickIsLoading, quickSends, quickStarted,
               quickNotice>>

srvVars == <<identities, owned, tie, req, acts, authedDeletes, dl, relay, body, verdict>>

evtVars == <<handlers, delivered>>

\* what the account switcher never touches
otherVars == <<decVars, chatVars, quickVars, srvVars, evtVars>>

vars == <<accVars, swVars, decVars, chatVars, quickVars, srvVars, evtVars>>

----------------------------------------------------------------------------
(* Bounds of the model *)

NumEmails == 6
MaxUpserts == 3
NumSwitchEmails == 2
MaxSwitchUpserts == 3
MaxAttempts == 1
MaxLines == 3
MaxChunk == 3
MaxSends == 1
MaxQuickSends == 2
MaxLegacyLen == 5
MaxRequests == 2
MaxLoaded == 100
MaxBodySends == 2
MaxEvents == 3

(* Program constants *)

MaxStored == 5
DataPrefixLen == 6
MaxMessages == 100
MaxContentLength == 10000

----------------------------------------------------------------------------
(* Values *)

Emails == 1..NumEmails

Min(a, b) == IF a < b THEN a ELSE b

\* slice(0, n) of an array
Slice(s, n) == SubSeq(s, 1, Min(n, Len(s)))

\* email.split("@")[0]: the local part of an address, a name of its own
LocalPart(email) == 100 + email

\* `tokens: undefined`: no credential pair (0 is the missing / falsy token)
NoTokens == [accessToken |-> 0, refreshToken |-> 0]

TokensOf(g) == [accessToken |-> g, refreshToken |-> g]

Absent == [raw |-> "absent", val |-> <<>>]

Json(list) == [raw |-> "json", val |-> list]

----------------------------------------------------------------------------
(* Backend and auth events at rest *)

Tables == {"conversations", "messages", "tasks", "voice_commands", "settings", "profiles"}

NoRequest == [fn |-> "none", header |-> "none", token |-> 0, pc |-> "idle", userId |-> 0,
              convIds |-> FALSE, status |-> 0, verified |-> FALSE, n |-> 0]

DlIdle == [pc |-> "idle", outcome |-> "none"]

RelayIdle == [pos |-> 0, full |-> <<>>, pipe |-> <<>>, closed |-> FALSE,
              taskInserted |-> FALSE]

NoVerdict == [answer |-> "none", sends |-> 0]

SrvRest ==
    /\ identities = {}
    /\ owned = [t \in Tables |-> {}]
    /\ tie = "cascade"
    /\ req = NoRequest
    /\ acts = {}
    /\ authedDeletes = {}
    /\ dl = DlIdle
    /\ relay = RelayIdle
    /\ body = <<>>
    /\ verdict = NoVerdict

NoEvent == [n |-> 0, kind |-> "none", email |-> 0, gen |-> 0]

EvtRest ==
    /\ handlers = {}
    /\ delivered = NoEvent

----------------------------------------------------------------------------
(* Account registry: storage helpers *)

\* JSON.parse with no catch around it: whatever the text held comes back
safeJsonParseUnchecked(store) == store.val

\* safeJsonParse(value, fallback) with fallback []: a missing key or text that
\* does not parse gives the fallback, otherwise the parsed array
safeJsonParse(store) ==
    IF store.raw = "json" THEN store.val ELSE <<>>

\* the migration of an entry with the username copied as it is
MigrateEntryKeepName(a, now) ==
    [userId   |-> a.email,
     email    |-> a.email,
     username |-> a.username,
     lastUsed |-> IF a.lastUsed # 0 THEN a.lastUsed ELSE now,
     tokens   |-> NoTokens]

\* one legacy entry { email, username, lastUsed, hasSession } in the current shape
MigrateEntry(a, now) ==
    [userId   |-> a.email,
     email    |-> a.email,
     username |-> IF a.username # 0 THEN a.username ELSE LocalPart(a.email),
     lastUsed |-> IF a.lastUsed # 0 THEN a.lastUsed ELSE now,
     tokens   |-> NoTokens]

\* legacy.filter(a && typeof a.email === "string").map(...)
Migrated(legacy, now) ==
    LET valid == SelectSeq(legacy, LAMBDA a : a.email # 0)
    IN  [i \in 1..Len(valid) |-> MigrateEntry(valid[i], now)]

\* loadAccountsFromStorage(): the list returned and the v2 store it leaves
loadAccountsFromStorage(v2store, legacyStore, now) ==
    LET v2     == safeJsonParse(v2store)
        legacy == safeJsonParse(legacyStore)
    IN  IF Len(v2) > 0 THEN [list |-> v2, v2 |-> v2store]
        ELSE IF Len(legacy) = 0 THEN [list |-> <<>>, v2 |-> v2store]
        ELSE [list |-> Slice(Migrated(legacy, now), MaxStored),
              v2   |-> Json(Slice(Migrated(legacy, now), MaxStored))]

\* saveAccountsToStorage(accounts)
saveAccountsToStorage(list) == Json(Slice(list, MaxStored))

\* the updater of upsertAccount with the filter left out
UpsertListNoFilter(list, account) ==
    Slice(<<account>> \o list, MaxStored)

\* the updater of upsertAccount with the record put last and the cap cutting
\* from the front
UpsertListAppend(list, account) ==
    LET l == SelectSeq(list, LAMBDA a : a.email # account.email) \o <<account>>
    IN  SubSeq(l, IF Len(l) > MaxStored THEN Len(l) - MaxStored + 1 ELSE 1, Len(l))

\* [account, ...list.filter(a => a.email !== account.email)].slice(0, 5)
UpsertList(list, account) ==
    Slice(<<account>> \o SelectSeq(list, LAMBDA a : a.email # account.email), MaxStored)

\* upsertAccount(account): the state updater and the save inside it
upsertAccount(account) ==
    LET list == IF Len(accounts) > 0 THEN accounts
                ELSE loadAccountsFromStorage(storeV2, storeLegacy, clock).list
        next == UpsertList(list, account)
    IN  /\ accounts' = next
        /\ storeV2' = saveAccountsToStorage(next)
        /\ lastUpserted' = account.email
        /\ upserts' = upserts + 1

----------------------------------------------------------------------------
(* The legacy list as the earlier AccountSwitcher wrote it: updateAccountsList
   keeps it deduplicated by email, newest first, at most 5 long. *)

LegacyEntry(e, named, t) ==
    [email |-> e, username |-> IF named THEN 200 + e ELSE 0, lastUsed |-> t]

\* the list left by sign-ins of emails 1..n in that order (n is newest)
LegacyList(n, named) ==
    [i \in 1..n |-> LegacyEntry(n + 1 - i, named, n + 1 - i)]

LegacyStores ==
    {Absent} \cup {Json(LegacyList(n, named)) : n \in 0..MaxStored, named \in BOOLEAN}

----------------------------------------------------------------------------
(* Stream decoding: text is a sequence of one-character strings *)

NL == "\n"
CR == "\r"

DataPrefix == <<"d", "a", "t", "a", ":", " ">>
DoneMarker == <<"[", "D", "O", "N", "E", "]">>

Whitespace == {" ", CR, "\t"}
Letters == {"a", "b"}

\* one character for the text [TASK_CREATED]{...}[/TASK_CREATED] of a reply
TaskBlock == "T"

\* s.startsWith(p)
StartsWith(s, p) == Len(s) >= Len(p) /\ SubSeq(s, 1, Len(p)) = p

\* s.slice(n)
Drop(s, n) == SubSeq(s, n + 1, Len(s))

RECURSIVE TrimLeft(_)
TrimLeft(s) ==
    IF Len(s) > 0 /\ s[1] \in Whitespace THEN TrimLeft(Tail(s)) ELSE s

RECURSIVE TrimRight(_)
TrimRight(s) ==
    IF Len(s) > 0 /\ s[Len(s)] \in Whitespace
    THEN TrimRight(SubSeq(s, 1, Len(s) - 1)) ELSE s

\* s.trim()
Trim(s) == TrimRight(TrimLeft(s))

\* textBuffer.indexOf("\n"), 1-based; 0 when there is none
RECURSIVE IndexOfNL(_, _)
IndexOfNL(s, i) ==
    IF i > Len(s) THEN 0
    ELSE IF s[i] = NL THEN i
    ELSE IndexOfNL(s, i + 1)

\* JSON.parse(jsonStr) and parsed.choices?.[0]?.delta?.content on the event
\* objects of this model: "{" letters "}" is an event whose delta content is the
\* letters ("{}" carries no content); any other text does not parse
JsonParses(jsonStr) ==
    /\ Len(jsonStr) >= 2
    /\ jsonStr[1] = "{"
    /\ jsonStr[Len(jsonStr)] = "}"
    /\ \A i \in 2..(Len(jsonStr) - 1) : jsonStr[i] \in Letters \cup {TaskBlock}

DeltaContent(jsonStr) == SubSeq(jsonStr, 2, Len(jsonStr) - 1)

\* if (line.endsWith("\r")) line = line.slice(0, -1)
StripCR(rawLine) ==
    IF Len(rawLine) > 0 /\ rawLine[Len(rawLine)] = CR
    THEN SubSeq(rawLine, 1, Len(rawLine) - 1) ELSE rawLine

\* the line passes the three `continue` tests: no comment, not blank, "data: " first
IsDataLine(line) ==
    /\ ~StartsWith(line, <<":">>)
    /\ Trim(line) # <<>>
    /\ StartsWith(line, DataPrefix)

\* line.slice(6).trim()
JsonStr(line) == Trim(Drop(line, DataPrefixLen))

\* what one complete line does to assistantContent, and whether it is [DONE]
\* (the body of the inner loop)
DecodeLine(rawLine, content) ==
    LET line == StripCR(rawLine)
    IN  IF ~IsDataLine(line) THEN [content |-> content, done |-> FALSE]
        ELSE IF JsonStr(line) = DoneMarker THEN [content |-> content, done |-> TRUE]
        ELSE IF JsonParses(JsonStr(line))
        THEN [content |-> content \o DeltaContent(JsonStr(line)), done |-> FALSE]
        ELSE [content |-> content, done |-> FALSE]

\* the inner loop with a data line that fails to parse put back on the buffer
\* and the loop left, to wait for the rest of the line
RECURSIVE DrainBufferRequeue(_, _, _)
DrainBufferRequeue(buf, content, seen) ==
    LET k    == IndexOfNL(buf, 1)
        line == StripCR(SubSeq(buf, 1, k - 1))
        r    == DecodeLine(SubSeq(buf, 1, k - 1), content)
    IN  IF k = 0 THEN [buf |-> buf, content |-> content, done |-> seen]
        ELSE IF r.done THEN [buf |-> Drop(buf, k), content |-> content, done |-> TRUE]
        ELSE IF IsDataLine(line) /\ ~JsonParses(JsonStr(line))
        THEN [buf |-> buf, content |-> content, done |-> seen]
        ELSE DrainBufferRequeue(Drop(buf, k), r.content, seen)

\* while ((newlineIndex = textBuffer.indexOf("\n")) !== -1) { ... }: lines are
\* taken off the buffer until none is complete or a [DONE] line breaks the
\* inner loop, the rest of the buffer staying for the next chunk
RECURSIVE DrainBuffer(_, _, _)
DrainBuffer(buf, content, seen) ==
    LET k == IndexOfNL(buf, 1)
        r == DecodeLine(SubSeq(buf, 1, k - 1), content)
    IN  IF k = 0 THEN [buf |-> buf, content |-> content, done |-> seen]
        ELSE IF r.done THEN [buf |-> Drop(buf, k), content |-> content, done |-> TRUE]
        ELSE DrainBuffer(Drop(buf, k), r.content, seen)

(* The response bodies of the model: up to MaxLines lines of these kinds *)

CommentLine   == <<":", "k">>
BlankLine     == <<>>
EventLineA    == DataPrefix \o <<"{", "a", "}", CR>>
EventLineB    == DataPrefix \o <<"{", "b", "}">>
MalformedLine == DataPrefix \o <<"{", "a">>
DoneLine      == DataPrefix \o DoneMarker

LineKinds == {CommentLine, BlankLine, EventLineA, EventLineB, MalformedLine, DoneLine}

\* a reply with comment, blank, event and malformed lines interleaved, ended by
\* the sentinel
ScenarioBody ==
    <<CommentLine, EventLineA, BlankLine, MalformedLine, EventLineB, DoneLine>>

Bodies == UNION {[1..n -> LineKinds] : n \in 0..MaxLines} \cup {ScenarioBody}

\* the characters of a body
RECURSIVE BodyText(_, _)
BodyText(ls, endsNL) ==
    IF Len(ls) = 0 THEN <<>>
    ELSE IF Len(ls) = 1 THEN ls[1] \o (IF endsNL THEN <<NL>> ELSE <<>>)
    ELSE ls[1] \o <<NL>> \o BodyText(Tail(ls), endsNL)

stream == BodyText(lines, lastNewline)

DecRest ==
    /\ lines = <<>>
    /\ lastNewline = TRUE
    /\ pos = 0
    /\ textBuffer = <<>>
    /\ assistantContent = <<>>
    /\ dpc = "done"
    /\ sawDone = FALSE
    /\ run = 1
    /\ firstContent = <<>>

DecInit ==
    /\ lines \in Bodies
    /\ lastNewline \in BOOLEAN
    /\ pos = 0
    /\ textBuffer = <<>>
    /\ assistantContent = <<>>
    /\ dpc = "reading"
    /\ sawDone = FALSE
    /\ run = 1
    /\ firstContent = <<>>

\* textBuffer += decoder.decode(value); then the inner loop
Deliver(n) ==
    /\ LET r == DrainBuffer(textBuffer \o SubSeq(stream, pos + 1, pos + n),
                            assistantContent, sawDone)
       IN  /\ textBuffer' = r.buf
           /\ assistantContent' = r.content
           /\ sawDone' = r.done
    /\ pos' = pos + n
    /\ UNCHANGED <<lines, lastNewline, dpc, run, firstContent>>
    /\ UNCHANGED <<accVars, swVars, chatVars, quickVars, srvVars, evtVars>>

\* reader.read() delivers a chunk of the next n characters
ReadChunk(n) ==
    /\ dpc = "reading"
    /\ pos + n <= Len(stream)
    /\ Deliver(n)

\* reader.read() delivers all that is left of the body as one chunk
ReadRest ==
    /\ dpc = "reading"
    /\ pos < Len(stream)
    /\ Deliver(Len(stream) - pos)

\* reader.read() answers done: the loop is left
ReadDone ==
    /\ dpc = "reading"
    /\ pos = Len(stream)
    /\ dpc' = "done"
    /\ UNCHANGED <<lines, lastNewline, pos, textBuffer, assistantContent, sawDone, run,
                   firstContent>>
    /\ UNCHANGED <<accVars, swVars, chatVars, quickVars, srvVars, evtVars>>

\* the same body is served again to a fresh session
Replay ==
    /\ dpc = "done"
    /\ run = 1
    /\ run' = 2
    /\ firstContent' = assistantContent
    /\ pos' = 0
    /\ textBuffer' = <<>>
    /\ assistantContent' = <<>>
    /\ sawDone' = FALSE
    /\ dpc' = "reading"
    /\ UNCHANGED <<lines, lastNewline>>
    /\ UNCHANGED <<accVars, swVars, chatVars, quickVars, srvVars, evtVars>>

DecNext ==
    \/ \E n \in 1..MaxChunk : ReadChunk(n)
    \/ ReadRest
    \/ ReadDone
    \/ Replay

----------------------------------------------------------------------------
(* Chat session: ChatInterface.streamChat and saveMessage, every await a step.
   The auth session changes between sends only; inserts of a signed-out client
   are refused by the row-level policies. *)

UserMsg(t) == [role |-> "user", content |-> <<"q">>, turn |-> t]

AssistantMsg(c, t) == [role |-> "assistant", content |-> c, turn |-> t]

Row(conv, msg) == [conv |-> conv, role |-> msg.role, content |-> msg.content,
                   turn |-> msg.turn]

\* no deletion under way in the sidebar
DelIdle == [pc |-> "idle", conv |-> 0, cur0 |-> 0, toast |-> "none", reset |-> FALSE]

SndIdle == [pc |-> "idle", turn |-> 0, cur0 |-> 0, target |-> 0, isNew |-> FALSE,
            convId |-> 0, status |-> 0, fetches |-> 0, calls |-> {},
            outcome |-> "none", asstTarget |-> 0, hadSession |-> FALSE]

\* a ?? b
Coalesce(a, b) == IF a # 0 THEN a ELSE b

\* the rows of a conversation as loadConversation maps them to messages
ConversationMessages(conv) ==
    LET rows == SelectSeq(dbMessages, LAMBDA r : r.conv = conv)
    IN  [i \in 1..Len(rows) |->
           [role |-> rows[i].role, content |-> rows[i].content, turn |-> rows[i].turn]]

\* the toast of a refused completion request, 429 taken for any other failure
NoticeForGeneric(status) ==
    IF status = 402 THEN "payment" ELSE "error"

\* the toast of a completion request that did not answer 2xx
NoticeFor(status) ==
    IF status = 429 THEN "rate"
    ELSE IF status = 402 THEN "payment"
    ELSE "error"

\* the setMessages updater of a delta: the last message is replaced in place if
\* it is an assistant turn, else an assistant turn is appended
ApplyDelta(prev, content, t) ==
    IF Len(prev) > 0 /\ prev[Len(prev)].role = "assistant"
    THEN [prev EXCEPT ![Len(prev)].content = content]
    ELSE Append(prev, AssistantMsg(content, t))

\* the replies of the completion endpoint in this model
ChatBodies == {<<EventLineA, EventLineB, DoneLine>>, <<MalformedLine, DoneLine>>}

Statuses == {200, 429, 402, 500}

ChatRest ==
    /\ messages = <<>>
    /\ input = 0
    /\ isLoading = FALSE
    /\ currentConversationId = 0
    /\ conversationIdRef = 0
    /\ chatSession = TRUE
    /\ dbConversations = {}
    /\ dbMessages = <<>>
    /\ pendingLoads = {}
    /\ snd = SndIdle
    /\ turns = 0
    /\ chatNotice = "none"
    /\ titleCalls = <<>>
    /\ del = DelIdle

\* a fresh chat view; conversation 1 is left from an earlier visit
ChatInit ==
    /\ messages = <<>>
    /\ input = 0
    /\ isLoading = FALSE
    /\ currentConversationId = 0
    /\ conversationIdRef = 0
    /\ chatSession \in BOOLEAN
    /\ dbConversations = {1}
    /\ dbMessages = <<Row(1, UserMsg(0)), Row(1, AssistantMsg(<<"b">>, 0))>>
    /\ pendingLoads = {}
    /\ snd = SndIdle
    /\ turns = 0
    /\ chatNotice = "none"
    /\ titleCalls = <<>>
    /\ del = DelIdle

chatDecVars == <<lines, lastNewline, pos, textBuffer, assistantContent, dpc, sawDone>>

\* setInput: typing, a quick-action button or a suggestion fills the input
SetInput ==
    /\ input = 0
    /\ input' = 1
    /\ UNCHANGED <<messages, isLoading, currentConversationId, conversationIdRef,
                   chatSession, dbConversations, dbMessages, pendingLoads, snd, turns,
                   chatNotice, titleCalls, del>>
    /\ UNCHANGED <<accVars, swVars, decVars, quickVars, srvVars, evtVars>>

\* the auth session ends or is established while no send is in flight
SessionChange ==
    /\ snd.pc \in {"idle", "done"}
    /\ chatSession' = ~chatSession
    /\ UNCHANGED <<messages, input, isLoading, currentConversationId, conversationIdRef,
                   dbConversations, dbMessages, pendingLoads, snd, turns, chatNotice,
                   titleCalls, del>>
    /\ UNCHANGED <<accVars, swVars, decVars, quickVars, srvVars, evtVars>>

\* if (!input.trim() || isLoading) return
CanSend == input # 0 /\ ~isLoading

\* handleSend: streamChat(input) up to the first await of saveMessage
HandleSend ==
    /\ CanSend
    /\ turns < MaxSends
    /\ turns' = turns + 1
    /\ input' = 0
    /\ messages' = Append(messages, UserMsg(turns + 1))
    /\ isLoading' = TRUE
    /\ LET target == Coalesce(currentConversationId, conversationIdRef)
       IN  snd' = [SndIdle EXCEPT !.pc = IF target = 0 THEN "getUser" ELSE "insertUser",
                                  !.turn = turns + 1,
                                  !.cur0 = currentConversationId,
                                  !.target = target,
                                  !.hadSession = chatSession]
    /\ lines' = <<>>
    /\ lastNewline' = TRUE
    /\ pos' = 0
    /\ textBuffer' = <<>>
    /\ assistantContent' = <<>>
    /\ dpc' = "done"
    /\ sawDone' = FALSE
    /\ UNCHANGED <<run, firstContent>>
    /\ UNCHANGED <<currentConversationId, conversationIdRef, chatSession,
                   dbConversations, dbMessages, pendingLoads, chatNotice, titleCalls, del>>
    /\ UNCHANGED <<accVars, swVars, quickVars, srvVars, evtVars>>

\* saveMessage: supabase.auth.getUser(); without a user it returns null
SaveGetUser ==
    /\ snd.pc = "getUser"
    /\ snd' = [snd EXCEPT !.calls = @ \cup {"getUser"},
                          !.pc = IF chatSession THEN "insertConv" ELSE "getSession"]
    /\ UNCHANGED <<messages, input, isLoading, currentConversationId, conversationIdRef,
                   chatSession, dbConversations, dbMessages, pendingLoads, turns,
                   chatNotice, titleCalls, del>>
    /\ UNCHANGED <<accVars, swVars, decVars, quickVars, srvVars, evtVars>>

\* saveMessage: the insert into conversations; on success the id becomes the
\* current conversation (state and ref), which starts loadConversation
SaveInsertConv ==
    /\ snd.pc = "insertConv"
    /\ \/ /\ chatSession
          /\ LET c == Cardinality(dbConversations) + 1
             IN  /\ dbConversations' = dbConversations \cup {c}
                 /\ currentConversationId' = c
                 /\ conversationIdRef' = c
                 /\ pendingLoads' = pendingLoads \cup
                                    {[conv |-> c, stage |-> "query", data |-> <<>>]}
                 /\ snd' = [snd EXCEPT !.calls = @ \cup {"insertConv"},
                                       !.target = c, !.isNew = TRUE, !.pc = "insertUser"]
       \/ /\ snd' = [snd EXCEPT !.calls = @ \cup {"insertConv"}, !.pc = "getSession"]
          /\ UNCHANGED <<dbConversations, currentConversationId, conversationIdRef,
                         pendingLoads>>
    /\ UNCHANGED <<messages, input, isLoading, chatSession, dbMessages, turns,
                   chatNotice, titleCalls, del>>
    /\ UNCHANGED <<accVars, swVars, decVars, quickVars, srvVars, evtVars>>

\* the test before the title call with the new-conversation flag left out
FiresTitleAnyUser(isNew, role) == role = "user"

\* if (isNewConversation && role === "user")
FiresTitle(isNew, role) == isNew /\ role = "user"

\* saveMessage: the insert into messages, the title call of a new conversation,
\* and the return of the target id
SaveInsertUser ==
    /\ snd.pc = "insertUser"
    /\ dbMessages' = IF chatSession
                     THEN Append(dbMessages, Row(snd.target, UserMsg(snd.turn)))
                     ELSE dbMessages
    /\ titleCalls' = IF FiresTitle(snd.isNew, "user")
                     THEN Append(titleCalls, [conv |-> snd.target, state |-> "pending"])
                     ELSE titleCalls
    /\ UNCHANGED del
    /\ snd' = [snd EXCEPT !.calls = @ \cup {"insertMsg"} \cup
                                    (IF FiresTitle(snd.isNew, "user") THEN {"title"} ELSE {}),
                          !.convId = snd.target, !.pc = "getSession"]
    /\ UNCHANGED <<messages, input, isLoading, currentConversationId, conversationIdRef,
                   chatSession, dbConversations, pendingLoads, turns, chatNotice>>
    /\ UNCHANGED <<accVars, swVars, decVars, quickVars, srvVars, evtVars>>

\* streamChat: getSession; without an access token the unauthenticated toast
GetSession ==
    /\ snd.pc = "getSession"
    /\ IF chatSession
       THEN /\ snd' = [snd EXCEPT !.calls = @ \cup {"getSession"}, !.pc = "fetch"]
            /\ UNCHANGED <<isLoading, chatNotice>>
       ELSE /\ snd' = [snd EXCEPT !.calls = @ \cup {"getSession"}, !.pc = "done",
                                  !.outcome = "unauth"]
            /\ chatNotice' = "unauth"
            /\ isLoading' = FALSE
    /\ UNCHANGED <<messages, input, currentConversationId, conversationIdRef,
                   chatSession, dbConversations, dbMessages, pendingLoads, turns,
                   titleCalls, del>>
    /\ UNCHANGED <<accVars, swVars, decVars, quickVars, srvVars, evtVars>>

\* streamChat: the completion request and the test of its status
Fetch(status) ==
    /\ snd.pc = "fetch"
    /\ IF status = 200
       THEN /\ snd' = [snd EXCEPT !.calls = @ \cup {"fetch"}, !.fetches = @ + 1,
                                  !.status = status, !.pc = "streaming"]
            /\ lines' \in ChatBodies
            /\ dpc' = "reading"
            /\ UNCHANGED <<isLoading, chatNotice>>
       ELSE /\ snd' = [snd EXCEPT !.calls = @ \cup {"fetch"}, !.fetches = @ + 1,
                                  !.status = status, !.pc = "done",
                                  !.outcome = NoticeFor(status)]
            /\ chatNotice' = NoticeFor(status)
            /\ isLoading' = FALSE
            /\ UNCHANGED <<lines, dpc>>
    /\ UNCHANGED <<lastNewline, pos, textBuffer, assistantContent, sawDone, run,
                   firstContent>>
    /\ UNCHANGED <<messages, input, currentConversationId, conversationIdRef,
                   chatSession, dbConversations, dbMessages, pendingLoads, turns,
                   titleCalls, del>>
    /\ UNCHANGED <<accVars, swVars, quickVars, srvVars, evtVars>>

\* one pass of the read loop on a chunk of n characters: the buffer is drained
\* and, when a delta was decoded, the updater is applied
ChatDeliver(n) ==
    /\ LET r == DrainBuffer(textBuffer \o SubSeq(stream, pos + 1, pos + n),
                            assistantContent, sawDone)
       IN  /\ textBuffer' = r.buf
           /\ assistantContent' = r.content
           /\ sawDone' = r.done
           /\ messages' = IF r.content # assistantContent
                          THEN ApplyDelta(messages, r.content, snd.turn)
                          ELSE messages
    /\ pos' = pos + n
    /\ UNCHANGED <<lines, lastNewline, dpc, run, firstContent>>
    /\ UNCHANGED <<input, isLoading, currentConversationId, conversationIdRef,
                   chatSession, dbConversations, dbMessages, pendingLoads, snd, turns,
                   chatNotice, titleCalls, del>>
    /\ UNCHANGED <<accVars, swVars, quickVars, srvVars, evtVars>>

\* the next chunk is the next line of the reply
ChatReadLine ==
    /\ snd.pc = "streaming"
    /\ dpc = "reading"
    /\ pos < Len(stream)
    /\ ChatDeliver(IndexOfNL(Drop(stream, pos), 1))

\* the next chunk is all that is left of the reply
ChatReadRest ==
    /\ snd.pc = "streaming"
    /\ dpc = "reading"
    /\ pos < Len(stream)
    /\ ChatDeliver(Len(stream) - pos)

\* reader.read() rejects: the catch block shows the failure toast
ChatReadError ==
    /\ snd.pc = "streaming"
    /\ dpc = "reading"
    /\ snd' = [snd EXCEPT !.pc = "done", !.outcome = "error"]
    /\ chatNotice' = "error"
    /\ isLoading' = FALSE
    /\ UNCHANGED <<messages, input, currentConversationId, conversationIdRef,
                   chatSession, dbConversations, dbMessages, pendingLoads, turns,
                   titleCalls, del>>
    /\ UNCHANGED <<accVars, swVars, decVars, quickVars, srvVars, evtVars>>

\* the id the assistant message is saved against with the captured id dropped
AssistantTargetRefFirst(convId, cur0, ref) == Coalesce(ref, Coalesce(convId, cur0))

\* convId ?? currentConversationId ?? conversationIdRef.current
AssistantTarget(convId, cur0, ref) == Coalesce(convId, Coalesce(cur0, ref))

\* reader.read() answers done; the assistant message is saved if there is
\* content and a conversation id
ChatReadDone ==
    /\ snd.pc = "streaming"
    /\ dpc = "reading"
    /\ pos = Len(stream)
    /\ dpc' = "done"
    /\ LET target == AssistantTarget(snd.convId, snd.cur0, conversationIdRef)
       IN  IF assistantContent # <<>> /\ target # 0
           THEN /\ snd' = [snd EXCEPT !.pc = "saveAssistant", !.asstTarget = target]
                /\ UNCHANGED isLoading
           ELSE /\ snd' = [snd EXCEPT !.pc = "done", !.outcome = "ok"]
                /\ isLoading' = FALSE
    /\ UNCHANGED <<lines, lastNewline, pos, textBuffer, assistantContent, sawDone, run,
                   firstContent>>
    /\ UNCHANGED <<messages, input, currentConversationId, conversationIdRef,
                   chatSession, dbConversations, dbMessages, pendingLoads, turns,
                   chatNotice, titleCalls, del>>
    /\ UNCHANGED <<accVars, swVars, quickVars, srvVars, evtVars>>

\* saveMessage("assistant", assistantContent, id): the insert, then finally
SaveAssistant ==
    /\ snd.pc = "saveAssistant"
    /\ dbMessages' = IF chatSession
                     THEN Append(dbMessages,
                                 Row(snd.asstTarget, AssistantMsg(assistantContent, snd.turn)))
                     ELSE dbMessages
    /\ snd' = [snd EXCEPT !.calls = @ \cup {"insertAssistant"}, !.pc = "done",
                          !.outcome = "ok"]
    /\ isLoading' = FALSE
    /\ UNCHANGED <<messages, input, currentConversationId, conversationIdRef,
                   chatSession, dbConversations, pendingLoads, turns, chatNotice,
                   titleCalls, del>>
    /\ UNCHANGED <<accVars, swVars, decVars, quickVars, srvVars, evtVars>>

\* a call awaited by saveMessage("user", ...) rejects: the await at the top of
\* streamChat is outside its try block, so the rejection leaves streamChat
\* and neither the catch nor the finally block runs
SaveMessageThrows ==
    /\ snd.pc \in {"getUser", "insertConv", "insertUser"}
    /\ snd' = [snd EXCEPT !.pc = "rejected", !.outcome = "rejected"]
    /\ UNCHANGED <<messages, input, isLoading, currentConversationId, conversationIdRef,
                   chatSession, dbConversations, dbMessages, pendingLoads, turns,
                   chatNotice, titleCalls, del>>
    /\ UNCHANGED <<accVars, swVars, decVars, quickVars, srvVars, evtVars>>

\* a call awaited inside the try block rejects (getSession, fetch, the insert
\* of the assistant message): the catch block shows the failure toast, then
\* finally
CallThrowsInTry ==
    /\ snd.pc \in {"getSession", "fetch", "saveAssistant"}
    /\ snd' = [snd EXCEPT !.pc = "done", !.outcome = "error"]
    /\ chatNotice' = "error"
    /\ isLoading' = FALSE
    /\ UNCHANGED <<messages, input, currentConversationId, conversationIdRef,
                   chatSession, dbConversations, dbMessages, pendingLoads, turns,
                   titleCalls, del>>
    /\ UNCHANGED <<accVars, swVars, decVars, quickVars, srvVars, evtVars>>

\* handleNewConversation
HandleNewConversation ==
    /\ messages # <<>> \/ currentConversationId # 0
    /\ messages' = <<>>
    /\ currentConversationId' = 0
    /\ conversationIdRef' = 0
    /\ UNCHANGED <<input, isLoading, chatSession, dbConversations, dbMessages,
                   pendingLoads, snd, turns, chatNotice, titleCalls, del>>
    /\ UNCHANGED <<accVars, swVars, decVars, quickVars, srvVars, evtVars>>

\* handleSelectConversation(id): the effect stores the id in the ref and starts
\* loadConversation
HandleSelectConversation(c) ==
    /\ c \in dbConversations
    /\ c # currentConversationId
    /\ pendingLoads = {}
    /\ currentConversationId' = c
    /\ conversationIdRef' = c
    /\ pendingLoads' = pendingLoads \cup {[conv |-> c, stage |-> "query", data |-> <<>>]}
    /\ UNCHANGED <<messages, input, isLoading, chatSession, dbConversations, dbMessages,
                   snd, turns, chatNotice, titleCalls, del>>
    /\ UNCHANGED <<accVars, swVars, decVars, quickVars, srvVars, evtVars>>

\* the call of loadConversation(c) that is at the given stage
LoadAt(c, stage) == {l \in pendingLoads : l.conv = c /\ l.stage = stage}

\* loadConversation: the select answers with the rows of the conversation
LoadQuery(c) ==
    /\ \E l \in LoadAt(c, "query") :
          pendingLoads' = (pendingLoads \ {l}) \cup
                          {[conv |-> c, stage |-> "apply",
                            data |-> ConversationMessages(c)]}
    /\ UNCHANGED <<messages, input, isLoading, currentConversationId, conversationIdRef,
                   chatSession, dbConversations, dbMessages, snd, turns, chatNotice,
                   titleCalls, del>>
    /\ UNCHANGED <<accVars, swVars, decVars, quickVars, srvVars, evtVars>>

\* loadConversation: setMessages(data.map(...))
LoadApply(c) ==
    /\ \E l \in LoadAt(c, "apply") :
          /\ messages' = l.data
          /\ pendingLoads' = pendingLoads \ {l}
    /\ UNCHANGED <<input, isLoading, currentConversationId, conversationIdRef,
                   chatSession, dbConversations, dbMessages, snd, turns, chatNotice,
                   titleCalls, del>>
    /\ UNCHANGED <<accVars, swVars, decVars, quickVars, srvVars, evtVars>>

\* generateConversationTitle settles on its own: no session, the request
\* answered, or the request failing into the catch block; it sets no state
TitleSettle(i, outcome) ==
    /\ i <= Len(titleCalls)
    /\ titleCalls[i].state = "pending"
    /\ titleCalls' = [titleCalls EXCEPT ![i].state = outcome]
    /\ UNCHANGED del
    /\ UNCHANGED <<messages, input, isLoading, currentConversationId, conversationIdRef,
                   chatSession, dbConversations, dbMessages, pendingLoads, snd, turns,
                   chatNotice>>
    /\ UNCHANGED <<accVars, swVars, decVars, quickVars, srvVars, evtVars>>

TitleOutcomes == {"done", "failed"}

ChatNext ==
    \/ SetInput
    \/ SessionChange
    \/ HandleSend
    \/ SaveGetUser
    \/ SaveInsertConv
    \/ SaveInsertUser
    \/ GetSession
    \/ \E status \in Statuses : Fetch(status)
    \/ ChatReadLine
    \/ ChatReadRest
    \/ ChatReadError
    \/ ChatReadDone
    \/ SaveAssistant
    \/ SaveMessageThrows
    \/ CallThrowsInTry
    \/ HandleNewConversation
    \/ \E c \in 1..(MaxSends + 1) : HandleSelectConversation(c)
    \/ \E c \in 1..(MaxSends + 1) : LoadQuery(c)
    \/ \E c \in 1..(MaxSends + 1) : LoadApply(c)

----------------------------------------------------------------------------
(* The ChatInterface component without persistence (second component of
   ChatInterface.tsx): its streamChat calls run side by side, each with its own
   reader, buffer and accumulated content. *)

QuickIdle == [pc |-> "idle", pos |-> 0, textBuffer |-> <<>>, assistantContent |-> <<>>,
              sawDone |-> FALSE, status |-> 0]

\* the reply of the completion endpoint to every request of this component
QuickBody == BodyText(<<EventLineA, EventLineB, DoneLine>>, TRUE)

QuickInFlight == {i \in 1..MaxQuickSends : quickSends[i].pc \in {"fetch", "streaming"}}

QuickRest ==
    /\ quickMessages = <<>>
    /\ quickInput = 0
    /\ quickIsLoading = FALSE
    /\ quickSends = [i \in 1..MaxQuickSends |-> QuickIdle]
    /\ quickStarted = 0
    /\ quickNotice = "none"

\* setInput from the text field, which is disabled while loading
QuickSetInput ==
    /\ ~quickIsLoading
    /\ quickInput = 0
    /\ quickInput' = 1
    /\ UNCHANGED <<quickMessages, quickIsLoading, quickSends, quickStarted, quickNotice>>
    /\ UNCHANGED <<accVars, swVars, decVars, chatVars, srvVars, evtVars>>

\* streamChat up to its first await
QuickStreamChat ==
    /\ quickStarted < MaxQuickSends
    /\ quickStarted' = quickStarted + 1
    /\ quickMessages' = Append(quickMessages, UserMsg(quickStarted + 1))
    /\ quickIsLoading' = TRUE
    /\ quickSends' = [quickSends EXCEPT ![quickStarted + 1].pc = "fetch"]
    /\ UNCHANGED quickNotice
    /\ UNCHANGED <<accVars, swVars, decVars, chatVars, srvVars, evtVars>>

\* handleSend of the second component
QuickHandleSend ==
    /\ quickInput # 0 /\ ~quickIsLoading
    /\ QuickStreamChat
    /\ quickInput' = 0

\* handleQuickAction of the second component: streamChat(action), whatever
\* isLoading is; the buttons are never disabled
QuickHandleQuickAction ==
    /\ QuickStreamChat
    /\ UNCHANGED quickInput

\* the completion request of call i and the test of its status
QuickFetch(i, status) ==
    /\ quickSends[i].pc = "fetch"
    /\ IF status = 200
       THEN /\ quickSends' = [quickSends EXCEPT ![i].pc = "streaming", ![i].status = status]
            /\ UNCHANGED <<quickIsLoading, quickNotice>>
       ELSE /\ quickSends' = [quickSends EXCEPT ![i].pc = "done", ![i].status = status]
            /\ quickNotice' = NoticeFor(status)
            /\ quickIsLoading' = FALSE
    /\ UNCHANGED <<quickMessages, quickInput, quickStarted>>
    /\ UNCHANGED <<accVars, swVars, decVars, chatVars, srvVars, evtVars>>

\* one pass of the read loop of call i on the next line of the reply
QuickReadLine(i) ==
    /\ quickSends[i].pc = "streaming"
    /\ quickSends[i].pos < Len(QuickBody)
    /\ LET q == quickSends[i]
           n == IndexOfNL(Drop(QuickBody, q.pos), 1)
           r == DrainBuffer(q.textBuffer \o SubSeq(QuickBody, q.pos + 1, q.pos + n),
                            q.assistantContent, q.sawDone)
       IN  /\ quickSends' = [quickSends EXCEPT ![i].pos = q.pos + n,
                                               ![i].textBuffer = r.buf,
                                               ![i].assistantContent = r.content,
                                               ![i].sawDone = r.done]
           /\ quickMessages' = IF r.content # q.assistantContent
                               THEN ApplyDelta(quickMessages, r.content, i)
                               ELSE quickMessages
    /\ UNCHANGED <<quickInput, quickIsLoading, quickStarted, quickNotice>>
    /\ UNCHANGED <<accVars, swVars, decVars, chatVars, srvVars, evtVars>>

\* reader.read() of call i answers done, then finally
QuickReadDone(i) ==
    /\ quickSends[i].pc = "streaming"
    /\ quickSends[i].pos = Len(QuickBody)
    /\ quickSends' = [quickSends EXCEPT ![i].pc = "done"]
    /\ quickIsLoading' = FALSE
    /\ UNCHANGED <<quickMessages, quickInput, quickStarted, quickNotice>>
    /\ UNCHANGED <<accVars, swVars, decVars, chatVars, srvVars, evtVars>>

QuickNext ==
    \/ QuickSetInput
    \/ QuickHandleSend
    \/ QuickHandleQuickAction
    \/ \E i \in 1..MaxQuickSends, status \in Statuses : QuickFetch(i, status)
    \/ \E i \in 1..MaxQuickSends : QuickReadLine(i)
    \/ \E i \in 1..MaxQuickSends : QuickReadDone(i)

----------------------------------------------------------------------------
(* Account registry: actions *)

NoSession == [email |-> 0, gen |-> 0]

NoAccount == [userId |-> 0, email |-> 0, username |-> 0, lastUsed |-> 0,
              tokens |-> NoTokens]

SwIdle == [pc |-> "idle", account |-> NoAccount, cur |-> NoSession,
           session |-> NoSession, switchError |-> FALSE,
           setRes |-> "none", refRes |-> "none"]

NoOutcome == [n |-> 0, email |-> 0, result |-> "none", setRes |-> "none",
              refRes |-> "none"]

AccInit ==
    /\ storeV2 = Absent
    /\ storeLegacy \in LegacyStores
    /\ accounts = <<>>
    /\ mounted = FALSE
    /\ clock = MaxStored + 1
    /\ lastUpserted = 0
    /\ upserts = 0
    /\ initPending = FALSE

\* the switch variables at rest: signed in, the app view showing
SwRest ==
    /\ currentEmail = 0
    /\ session = NoSession
    /\ accepted = [e \in Emails |-> FALSE]
    /\ hint = 0
    /\ view = "app"
    /\ authQueryEmail = 0
    /\ authEmail = 0
    /\ authLoaded = FALSE
    /\ notice = "none"
    /\ sw = SwIdle
    /\ swOutcome = NoOutcome
    /\ attempts = 0
    /\ exchangeCalls = 0

\* useEffect on mount: setAccounts(loadAccountsFromStorage()); init() is started
Mount ==
    /\ ~mounted
    /\ view = "app"
    /\ LET r == loadAccountsFromStorage(storeV2, storeLegacy, clock)
       IN  /\ accounts' = r.list
           /\ storeV2' = r.v2
    /\ mounted' = TRUE
    /\ initPending' = TRUE
    /\ UNCHANGED <<storeLegacy, clock, lastUpserted, upserts>>
    /\ UNCHANGED swVars
    /\ UNCHANGED otherVars

\* a full page load: the component state is gone, storage stays
Reload ==
    /\ mounted
    /\ mounted' = FALSE
    /\ initPending' = FALSE
    /\ accounts' = <<>>
    /\ UNCHANGED <<storeV2, storeLegacy, clock, lastUpserted, upserts>>
    /\ UNCHANGED swVars
    /\ UNCHANGED otherVars

\* the record every call site of upsertAccount builds from a session
SessionAccount(e, username, g, now) ==
    [userId |-> 300 + e, email |-> e, username |-> username,
     lastUsed |-> now, tokens |-> TokensOf(g)]

\* any of the call sites of upsertAccount (init, auth event, saveCurrentSession,
\* switch): a record for the session's user with the session's tokens
Upsert(e, g) ==
    /\ mounted
    /\ upserts < MaxUpserts
    /\ clock' = clock + 1
    /\ upsertAccount(SessionAccount(e, LocalPart(e), g, clock + 1))
    /\ UNCHANGED <<storeLegacy, mounted, initPending>>
    /\ UNCHANGED swVars
    /\ UNCHANGED otherVars

AccNext ==
    \/ Mount
    \/ Reload
    \/ \E e \in Emails, g \in 1..2 : Upsert(e, g)

AccountsInit == AccInit /\ SwRest /\ DecRest /\ ChatRest /\ QuickRest /\ SrvRest /\ EvtRest

SpecAccounts == AccountsInit /\ [][AccNext]_vars

----------------------------------------------------------------------------
(* Quick switch: AccountSwitcher.handleSwitchAccount, the Auth page and the
   auth collaborator. One attempt is followed from the click to its outcome;
   every await of the handler is a step. *)

SwitchEmails == 1..NumSwitchEmails

\* profile?.username || email.split("@")[0]: the two names fetchUsername returns
ProfileName(e) == 200 + e

\* the profiles table: odd user ids have a username row, even ones have none
HasProfile(e) == e % 2 = 1

\* fetchUsername(userId, email)
fetchUsername(e) == IF HasProfile(e) THEN ProfileName(e) ELSE LocalPart(e)

\* the other accounts offered by the menu: accounts.filter(a => a.email !== currentEmail)
recentAccounts ==
    SelectSeq(accounts, LAMBDA a : a.email # currentEmail)

\* the guard of the interactive path with the test inverted: if (refreshToken)
NeedsPasswordInverted(account) == account.tokens.refreshToken # 0

\* if (!refreshToken): the target has no refresh credential
NeedsPassword(account) == account.tokens.refreshToken = 0

\* the tokens a successful exchange hands back: the stored pair while the access
\* token is still valid (setSession only), else a rotated pair
Rotated(g) == 3 - g

\* switchError after refreshSession, with the earlier error kept
RefreshErrorSticky(prevError, res) == prevError \/ res = "error"

\* switchError = error of refreshSession (the setSession error is overwritten)
RefreshError(prevError, res) == res = "error"

\* if (switchError || !session?.user?.id || !session.user.email)
SwitchFailed(switchError, s) == switchError \/ s.email = 0

\* localStorage.setItem("switch_to_email", email); toast; navigate("/auth?mode=switch&email=...")
\* leaving the app view unmounts the switcher
GoInteractive(email, toastKind) ==
    /\ hint' = email
    /\ notice' = toastKind
    /\ view' = "auth"
    /\ authQueryEmail' = email
    /\ authEmail' = 0
    /\ authLoaded' = FALSE
    /\ mounted' = FALSE
    /\ initPending' = FALSE
    /\ accounts' = <<>>
    /\ currentEmail' = 0

\* the list two password sign-ins leave (first 1, then 2 by "add account"):
\* both records carry the credential pair of their session
SignedInList ==
    <<SessionAccount(2, fetchUsername(2), 1, MaxStored + 1),
      SessionAccount(1, fetchUsername(1), 1, MaxStored)>>

\* a page load: either right after the upgrade from the legacy switcher, signed
\* out; or signed in as 2 with 1 and 2 stored by the current switcher
SwInit ==
    /\ storeLegacy \in {Absent, Json(LegacyList(NumSwitchEmails, FALSE))}
    /\ IF storeLegacy = Absent
       THEN /\ storeV2 = Json(SignedInList)
            /\ session = [email |-> 2, gen |-> 1]
            /\ accepted = [e \in Emails |-> e \in {1, 2}]
            /\ view = "app"
       ELSE /\ storeV2 = Absent
            /\ session = NoSession
            /\ accepted = [e \in Emails |-> FALSE]
            /\ view = "auth"
    /\ accounts = <<>>
    /\ mounted = FALSE
    /\ clock = MaxStored + 1
    /\ lastUpserted = 0
    /\ upserts = 0
    /\ initPending = FALSE
    /\ currentEmail = 0
    /\ hint = 0
    /\ authQueryEmail = 0
    /\ authEmail = 0
    /\ authLoaded = FALSE
    /\ notice = "none"
    /\ sw = SwIdle
    /\ swOutcome = NoOutcome
    /\ attempts = 0
    /\ exchangeCalls = 0

\* the stored hint with the removal left out
ConsumeHintKeep(prefill, h) == h

\* if (prefill) { ...; localStorage.removeItem("switch_to_email") }
ConsumeHint(prefill, h) == IF prefill # 0 THEN 0 ELSE h

\* const prefill = emailFromQuery || emailFromStorage
Prefill(emailFromQuery, emailFromStorage) ==
    IF emailFromQuery # 0 THEN emailFromQuery ELSE emailFromStorage

\* Auth page, the pre-fill effect of a load: the email field takes the query
\* parameter or else the stored hint, and the hint is removed
AuthLoad ==
    /\ view = "auth"
    /\ ~authLoaded
    /\ authLoaded' = TRUE
    /\ authEmail' = Prefill(authQueryEmail, hint)
    /\ hint' = ConsumeHint(Prefill(authQueryEmail, hint), hint)
    /\ UNCHANGED accVars
    /\ UNCHANGED <<currentEmail, session, accepted, view, authQueryEmail, notice, sw,
                   swOutcome, attempts, exchangeCalls>>
    /\ UNCHANGED otherVars

\* the sign-in view is loaded again: a page reload keeps the address, opening
\* the sign-in address by hand drops the query; the form starts empty
AuthRevisit(keepQuery) ==
    /\ view = "auth"
    /\ authLoaded
    /\ authLoaded' = FALSE
    /\ authEmail' = 0
    /\ authQueryEmail' = IF keepQuery THEN authQueryEmail ELSE 0
    /\ UNCHANGED accVars
    /\ UNCHANGED <<currentEmail, session, accepted, hint, view, notice, sw, swOutcome,
                   attempts, exchangeCalls>>
    /\ UNCHANGED otherVars

\* Auth page, handleAuth: signInWithPassword succeeds, the page navigates to "/"
SignIn(e) ==
    /\ view = "auth"
    /\ authLoaded
    /\ session' = [email |-> e, gen |-> 1]
    /\ accepted' = [accepted EXCEPT ![e] = TRUE]
    /\ view' = "app"
    /\ authQueryEmail' = 0
    /\ authEmail' = 0
    /\ authLoaded' = FALSE
    /\ UNCHANGED accVars
    /\ UNCHANGED <<currentEmail, hint, notice, sw, swOutcome, attempts, exchangeCalls>>
    /\ UNCHANGED otherVars

\* init(): getSession, fetchUsername, setCurrent*, upsertAccount
InitRun ==
    /\ mounted
    /\ initPending
    /\ initPending' = FALSE
    /\ IF session.email = 0
       THEN UNCHANGED <<storeV2, accounts, clock, lastUpserted, upserts, currentEmail>>
       ELSE /\ upserts < MaxSwitchUpserts
            /\ currentEmail' = session.email
            /\ clock' = clock + 1
            /\ upsertAccount(SessionAccount(session.email, fetchUsername(session.email),
                                            session.gen, clock + 1))
    /\ UNCHANGED <<storeLegacy, mounted>>
    /\ UNCHANGED <<session, accepted, hint, view, authQueryEmail, authEmail, authLoaded, notice, sw, swOutcome,
                   attempts, exchangeCalls>>
    /\ UNCHANGED otherVars

\* handleAddAccount: navigate("/auth?mode=add"), the session is kept
AddAccount ==
    /\ mounted
    /\ view = "app"
    /\ sw.pc = "idle"
    /\ view' = "auth"
    /\ authQueryEmail' = 0
    /\ authEmail' = 0
    /\ authLoaded' = FALSE
    /\ mounted' = FALSE
    /\ initPending' = FALSE
    /\ accounts' = <<>>
    /\ currentEmail' = 0
    /\ UNCHANGED <<storeV2, storeLegacy, clock, lastUpserted, upserts>>
    /\ UNCHANGED <<session, accepted, hint, notice, sw, swOutcome, attempts, exchangeCalls>>
    /\ UNCHANGED otherVars

\* handleLogout: signOut (its error or exception is only logged), the current
\* identity is cleared, toast, window.location.href = "/auth"; the stored list
\* is not written. A signOut that worked ends the session and revokes its
\* refresh token; after one that failed the sign-in page finds the session and
\* returns to the app
Logout ==
    /\ mounted
    /\ view = "app"
    /\ sw.pc = "idle"
    /\ \/ /\ session.email # 0
          /\ session' = NoSession
          /\ accepted' = [accepted EXCEPT ![session.email] = FALSE]
          /\ view' = "auth"
       \/ /\ UNCHANGED <<session, accepted>>
          /\ view' = IF session.email # 0 THEN "app" ELSE "auth"
    /\ notice' = "signOut"
    /\ authQueryEmail' = 0
    /\ authEmail' = 0
    /\ authLoaded' = FALSE
    /\ mounted' = FALSE
    /\ initPending' = FALSE
    /\ accounts' = <<>>
    /\ currentEmail' = 0
    /\ UNCHANGED <<storeV2, storeLegacy, clock, lastUpserted, upserts>>
    /\ UNCHANGED <<hint, sw, swOutcome, attempts, exchangeCalls>>
    /\ UNCHANGED otherVars

\* the collaborator stops accepting a refresh token (expiry, revocation)
Revoke(e) ==
    /\ accepted[e]
    /\ accepted' = [accepted EXCEPT ![e] = FALSE]
    /\ UNCHANGED accVars
    /\ UNCHANGED <<currentEmail, session, hint, view, authQueryEmail, authEmail, authLoaded, notice, sw,
                   swOutcome, attempts, exchangeCalls>>
    /\ UNCHANGED otherVars

\* handleSwitchAccount(account), up to its first await
SwitchStart(i) ==
    /\ mounted
    /\ view = "app"
    /\ sw.pc = "idle"
    /\ attempts < MaxAttempts
    /\ i \in 1..Len(recentAccounts)
    /\ LET account == recentAccounts[i]
       IN  /\ account.email # 0
           /\ account.email # currentEmail
           /\ attempts' = attempts + 1
           /\ IF NeedsPassword(account)
              THEN /\ GoInteractive(account.email, "signIn")
                   /\ sw' = SwIdle
                   /\ swOutcome' = [n |-> attempts + 1, email |-> account.email,
                                    result |-> "SIGNIN",
                                    setRes |-> "none", refRes |-> "none"]
              ELSE /\ sw' = [SwIdle EXCEPT !.pc = "getSession", !.account = account]
                   /\ UNCHANGED <<hint, notice, view, authQueryEmail, authEmail, authLoaded, mounted,
                                  initPending, accounts, currentEmail, swOutcome>>
    /\ UNCHANGED <<storeV2, storeLegacy, clock, lastUpserted, upserts>>
    /\ UNCHANGED <<session, accepted, exchangeCalls>>
    /\ UNCHANGED otherVars

\* saveCurrentSession: await supabase.auth.getSession()
SwGetSession ==
    /\ sw.pc = "getSession"
    /\ sw' = [sw EXCEPT !.pc = "saveUpsert", !.cur = session]
    /\ UNCHANGED accVars
    /\ UNCHANGED <<currentEmail, session, accepted, hint, view, authQueryEmail, authEmail, authLoaded, notice,
                   swOutcome, attempts, exchangeCalls>>
    /\ UNCHANGED otherVars

\* saveCurrentSession: fetchUsername, upsertAccount of the session left; then the
\* "switching" toast
SwSaveUpsert ==
    /\ sw.pc = "saveUpsert"
    /\ sw' = [sw EXCEPT !.pc = "setSession"]
    /\ notice' = "switching"
    /\ IF sw.cur.email = 0
       THEN UNCHANGED <<storeV2, accounts, clock, lastUpserted, upserts>>
       ELSE /\ upserts < MaxSwitchUpserts
            /\ clock' = clock + 1
            /\ upsertAccount(SessionAccount(sw.cur.email, fetchUsername(sw.cur.email),
                                            sw.cur.gen, clock + 1))
    /\ UNCHANGED <<storeLegacy, mounted, initPending>>
    /\ UNCHANGED <<currentEmail, session, accepted, hint, view, authQueryEmail, authEmail, authLoaded,
                   swOutcome, attempts, exchangeCalls>>
    /\ UNCHANGED otherVars

\* if (accessToken) setSession({access_token, refresh_token}): the collaborator
\* answers a session (the stored pair or a rotated one) or an error
SwSetSession ==
    /\ sw.pc = "setSession"
    /\ LET t == sw.account.tokens
           e == sw.account.email
       IN  IF t.accessToken = 0
           THEN /\ sw' = [sw EXCEPT !.pc = "refresh"]
                /\ UNCHANGED <<session, exchangeCalls>>
           ELSE /\ exchangeCalls' = exchangeCalls + 1
                /\ \/ /\ accepted[e]
                      /\ \E g \in {t.refreshToken, Rotated(t.refreshToken)} :
                           /\ session' = [email |-> e, gen |-> g]
                           /\ sw' = [sw EXCEPT !.pc = "refresh", !.setRes = "ok",
                                               !.session = [email |-> e, gen |-> g],
                                               !.switchError = FALSE]
                   \/ /\ sw' = [sw EXCEPT !.pc = "refresh", !.setRes = "error",
                                          !.session = NoSession, !.switchError = TRUE]
                      /\ UNCHANGED session
    /\ UNCHANGED accVars
    /\ UNCHANGED <<currentEmail, accepted, hint, view, authQueryEmail, authEmail, authLoaded, notice,
                   swOutcome, attempts>>
    /\ UNCHANGED otherVars

\* the test before refreshSession left out: the exchange is always made
NoSessionYetAlways(s) == TRUE

\* if (!session): setSession was skipped or answered no session
NoSessionYet(s) == s.email = 0

\* if (!session) refreshSession({refresh_token})
SwRefresh ==
    /\ sw.pc = "refresh"
    /\ LET t == sw.account.tokens
           e == sw.account.email
       IN  IF ~NoSessionYet(sw.session)
           THEN /\ sw' = [sw EXCEPT !.pc = "decide"]
                /\ UNCHANGED <<session, exchangeCalls>>
           ELSE /\ exchangeCalls' = exchangeCalls + 1
                /\ \/ /\ accepted[e]
                      /\ session' = [email |-> e, gen |-> Rotated(t.refreshToken)]
                      /\ sw' = [sw EXCEPT !.pc = "decide", !.refRes = "ok",
                                          !.session = [email |-> e,
                                                       gen |-> Rotated(t.refreshToken)],
                                          !.switchError = RefreshError(sw.switchError, "ok")]
                   \/ /\ sw' = [sw EXCEPT !.pc = "decide", !.refRes = "error",
                                          !.session = NoSession,
                                          !.switchError = RefreshError(sw.switchError, "error")]
                      /\ UNCHANGED session
    /\ UNCHANGED accVars
    /\ UNCHANGED <<currentEmail, accepted, hint, view, authQueryEmail, authEmail, authLoaded, notice,
                   swOutcome, attempts>>
    /\ UNCHANGED otherVars

\* the check after the exchanges: fall back to interactive sign-in, or go on
SwDecide ==
    /\ sw.pc = "decide"
    /\ IF SwitchFailed(sw.switchError, sw.session)
       THEN /\ GoInteractive(sw.account.email, "error")
            /\ sw' = SwIdle
            /\ swOutcome' = [n |-> attempts, email |-> sw.account.email,
                             result |-> "SIGNIN",
                             setRes |-> sw.setRes, refRes |-> sw.refRes]
       ELSE /\ sw' = [sw EXCEPT !.pc = "fetchUsername"]
            /\ UNCHANGED <<hint, notice, view, authQueryEmail, authEmail, authLoaded, mounted, initPending,
                           accounts, currentEmail, swOutcome>>
    /\ UNCHANGED <<storeV2, storeLegacy, clock, lastUpserted, upserts>>
    /\ UNCHANGED <<session, accepted, attempts, exchangeCalls>>
    /\ UNCHANGED otherVars

\* the record of a finished switch with the pair the list already held
SwitchedAccountStale(s, stored, now) ==
    [userId |-> 300 + s.email, email |-> s.email, username |-> fetchUsername(s.email),
     lastUsed |-> now, tokens |-> stored.tokens]

\* the record upsertAccount receives at the end of a switch: the user and the
\* tokens of the session the exchange answered
SwitchedAccount(s, stored, now) ==
    SessionAccount(s.email, fetchUsername(s.email), s.gen, now)

\* fetchUsername, upsertAccount with the new pair, toast, window.location.href = "/":
\* the page loads again under the new session
SwFinish ==
    /\ sw.pc = "fetchUsername"
    /\ upserts < MaxSwitchUpserts
    /\ clock' = clock + 1
    /\ LET account == SwitchedAccount(sw.session, sw.account, clock + 1)
           list    == IF Len(accounts) > 0 THEN accounts
                        ELSE loadAccountsFromStorage(storeV2, storeLegacy, clock).list
       IN  storeV2' = saveAccountsToStorage(UpsertList(list, account))
    /\ lastUpserted' = sw.session.email
    /\ upserts' = upserts + 1
    /\ accounts' = <<>>
    /\ mounted' = FALSE
    /\ initPending' = FALSE
    /\ currentEmail' = 0
    /\ notice' = "switched"
    /\ view' = "app"
    /\ sw' = SwIdle
    /\ swOutcome' = [n |-> attempts, email |-> sw.account.email, result |-> "ACTIVE",
                     setRes |-> sw.setRes, refRes |-> sw.refRes]
    /\ UNCHANGED <<storeLegacy, session, accepted, hint, authQueryEmail, authEmail, authLoaded, attempts,
                   exchangeCalls>>
    /\ UNCHANGED otherVars

SwNext ==
    \/ Mount
    \/ AuthLoad
    \/ \E keepQuery \in BOOLEAN : AuthRevisit(keepQuery)
    \/ InitRun
    \/ AddAccount
    \/ Logout
    \/ \E e \in SwitchEmails : SignIn(e)
    \/ \E e \in SwitchEmails : Revoke(e)
    \/ \E i \in 1..MaxStored : SwitchStart(i)
    \/ SwGetSession
    \/ SwSaveUpsert
    \/ SwSetSession
    \/ SwRefresh
    \/ SwDecide
    \/ SwFinish

SwitchInit == SwInit /\ DecRest /\ ChatRest /\ QuickRest /\ SrvRest /\ EvtRest

SpecSwitch == SwitchInit /\ [][SwNext]_vars

----------------------------------------------------------------------------
(* The switch with collaborator calls that may reject *)

\* the awaited call the attempt is at is really made
SwCallPending ==
    \/ sw.pc = "getSession"
    \/ sw.pc = "saveUpsert" /\ sw.cur.email # 0
    \/ sw.pc = "setSession" /\ sw.account.tokens.accessToken # 0
    \/ sw.pc = "refresh" /\ sw.session.email = 0
    \/ sw.pc = "fetchUsername"

\* an awaited call of handleSwitchAccount or saveCurrentSession rejects: neither
\* function has a try block, so the rejection leaves handleSwitchAccount where
\* it stands
SwThrows ==
    /\ SwCallPending
    /\ sw' = SwIdle
    /\ swOutcome' = [n |-> attempts, email |-> sw.account.email, result |-> "REJECTED",
                     setRes |-> sw.setRes, refRes |-> sw.refRes]
    /\ UNCHANGED accVars
    /\ UNCHANGED <<currentEmail, session, accepted, hint, view, authQueryEmail, authEmail, authLoaded, notice,
                   attempts, exchangeCalls>>
    /\ UNCHANGED otherVars

SwThrowsNext ==
    \/ Mount
    \/ AuthLoad
    \/ InitRun
    \/ AddAccount
    \/ Logout
    \/ \E e \in SwitchEmails : SignIn(e)
    \/ \E e \in SwitchEmails : Revoke(e)
    \/ \E i \in 1..MaxStored : SwitchStart(i)
    \/ SwGetSession
    \/ SwSaveUpsert
    \/ SwSetSession
    \/ SwRefresh
    \/ SwDecide
    \/ SwFinish
    \/ SwThrows

SpecSwitchThrows == SwitchInit /\ [][SwThrowsNext]_vars

----------------------------------------------------------------------------
(* The backend functions delete-account and chat, every await a step, and
   Settings.handleDeleteAccount calling the first *)

Users == {1, 2}

\* what auth.getClaims makes of a token: verified or not, and the sub it carries
Tokens == [valid : BOOLEAN, sub : {0} \cup Users]

Headers == {"none", "basic", "bearer"}

CleanupTables == Tables \ {"messages"}

\* the deletes of the cleanup that work: all, all but one, or none
CleanupOutcomes ==
    {CleanupTables, {}} \cup {CleanupTables \ {t} : t \in CleanupTables}

\* ON DELETE CASCADE of the migration: settings, tasks and voice_commands hang
\* on profiles, profiles on the identity; rows of conversations and messages go
\* with their parent only where the store is set up to cascade
CascadeOf(t, tieKind) ==
    IF t = "profiles" THEN {"profiles", "settings", "tasks", "voice_commands"}
    ELSE IF t = "conversations" /\ tieKind = "cascade" THEN {"conversations", "messages"}
    ELSE {t}

IdentityCascade(tieKind) ==
    {"profiles", "settings", "tasks", "voice_commands"} \cup
    (IF tieKind = "cascade" THEN {"conversations", "messages"} ELSE {})

\* the rows of user u removed from the tables ts
RemoveRows(o, ts, u) == [t \in Tables |-> IF t \in ts THEN o[t] \ {u} ELSE o[t]]

RowDeletes(ts, u) == {[kind |-> "rowDelete", table |-> t, user |-> u] : t \in ts}

Respond(status) == [req EXCEPT !.pc = "done", !.status = status]

\* the authorization test with the claim verification left out
DeleteAuthorizedAnyBearer(header, token) == header = "bearer" /\ token.sub # 0

\* delete-account: the Bearer header, then claimsError || !claimsData?.claims?.sub
DeleteAuthorized(header, token) == header = "bearer" /\ token.valid /\ token.sub # 0

\* chat: the Bearer header, then claimsError || !claimsData?.claims
ChatAuthorized(header, token) == header = "bearer" /\ token.valid

\* a request reaches one of the two functions
Call(fn, header, token) ==
    /\ req.pc \in {"idle", "done"}
    /\ req.n < MaxRequests
    /\ dl.pc # "fetch"
    /\ req' = [fn |-> fn, header |-> header, token |-> token.sub, pc |-> "auth",
               userId |-> 0, convIds |-> FALSE, status |-> 0,
               verified |-> token.valid, n |-> req.n + 1]
    /\ acts' = {}
    /\ authedDeletes' = IF fn = "delete" /\ header = "bearer" /\ token.valid /\ token.sub # 0
                        THEN authedDeletes \cup {token.sub} ELSE authedDeletes
    /\ UNCHANGED <<identities, owned, tie, dl, relay, body, verdict>>
    /\ UNCHANGED <<accVars, swVars, decVars, chatVars, quickVars, evtVars>>

ReqToken == [valid |-> req.verified, sub |-> req.token]

\* delete-account, up to `const userId = claimsData.claims.sub`
FnDeleteAuth ==
    /\ req.fn = "delete"
    /\ req.pc = "auth"
    /\ req' = IF DeleteAuthorized(req.header, ReqToken)
              THEN [req EXCEPT !.pc = "listConvs", !.userId = req.token]
              ELSE Respond(401)
    /\ UNCHANGED <<identities, owned, tie, acts, authedDeletes, dl, relay, body, verdict>>
    /\ UNCHANGED <<accVars, swVars, decVars, chatVars, quickVars, evtVars>>

\* the select of the user's conversation ids; its error is logged, convIds = []
FnListConvs(ok) ==
    /\ req.fn = "delete"
    /\ req.pc = "listConvs"
    /\ req' = [req EXCEPT !.pc = "messages",
                          !.convIds = ok /\ req.userId \in owned["conversations"]]
    /\ UNCHANGED <<identities, owned, tie, acts, authedDeletes, dl, relay, body, verdict>>
    /\ UNCHANGED <<accVars, swVars, decVars, chatVars, quickVars, evtVars>>

\* if (convIds.length > 0) delete the messages of these conversations; its
\* error is logged
FnDeleteMessages(ok) ==
    /\ req.fn = "delete"
    /\ req.pc = "messages"
    /\ ok \/ req.convIds
    /\ req' = [req EXCEPT !.pc = "cleanup"]
    /\ IF req.convIds /\ ok
       THEN /\ owned' = RemoveRows(owned, {"messages"}, req.userId)
            /\ acts' = acts \cup RowDeletes({"messages"}, req.userId)
       ELSE UNCHANGED <<owned, acts>>
    /\ UNCHANGED <<identities, tie, authedDeletes, dl, relay, body, verdict>>
    /\ UNCHANGED <<accVars, swVars, decVars, chatVars, quickVars, evtVars>>

\* Promise.all of the five deletes by user id; the deletes in oks work, the
\* errors of the others are logged
FnCleanup(oks) ==
    /\ req.fn = "delete"
    /\ req.pc = "cleanup"
    /\ req' = [req EXCEPT !.pc = "deleteUser"]
    /\ owned' = RemoveRows(owned, UNION {CascadeOf(t, tie) : t \in oks}, req.userId)
    /\ acts' = acts \cup RowDeletes(oks, req.userId)
    /\ UNCHANGED <<identities, tie, authedDeletes, dl, relay, body, verdict>>
    /\ UNCHANGED <<accVars, swVars, decVars, chatVars, quickVars, evtVars>>

\* admin.auth.admin.deleteUser(userId): 500 on its error, else { ok: true }
FnDeleteUser(ok) ==
    /\ req.fn = "delete"
    /\ req.pc = "deleteUser"
    /\ IF ok /\ req.userId \in identities
       THEN /\ identities' = identities \ {req.userId}
            /\ owned' = RemoveRows(owned, IdentityCascade(tie), req.userId)
            /\ acts' = acts \cup {[kind |-> "identityDelete", table |-> "users",
                                   user |-> req.userId]}
            /\ req' = Respond(200)
       ELSE /\ req' = Respond(500)
            /\ UNCHANGED <<identities, owned, acts>>
    /\ UNCHANGED <<tie, authedDeletes, dl, relay, body, verdict>>
    /\ UNCHANGED <<accVars, swVars, decVars, chatVars, quickVars, evtVars>>

\* an awaited call of delete-account rejects: the catch block answers 500
FnDeleteThrows ==
    /\ req.fn = "delete"
    /\ req.pc \in {"listConvs", "messages", "cleanup", "deleteUser"}
    /\ req' = Respond(500)
    /\ UNCHANGED <<identities, owned, tie, acts, authedDeletes, dl, relay, body, verdict>>
    /\ UNCHANGED <<accVars, swVars, decVars, chatVars, quickVars, evtVars>>

\* chat, up to `const userId = claimsData.claims.sub`
FnChatAuth ==
    /\ req.fn = "chat"
    /\ req.pc = "auth"
    /\ req' = IF ChatAuthorized(req.header, ReqToken)
              THEN [req EXCEPT !.pc = "body", !.userId = req.token]
              ELSE Respond(401)
    /\ UNCHANGED <<identities, owned, tie, acts, authedDeletes, dl, relay, body, verdict>>
    /\ UNCHANGED <<accVars, swVars, decVars, chatVars, quickVars, evtVars>>

\* chat: req.json() and validateMessages, 400 when either fails
FnChatBody(valid) ==
    /\ req.fn = "chat"
    /\ req.pc = "body"
    /\ req' = IF valid THEN [req EXCEPT !.pc = "gateway"] ELSE Respond(400)
    /\ UNCHANGED <<identities, owned, tie, acts, authedDeletes, dl, relay, body, verdict>>
    /\ UNCHANGED <<accVars, swVars, decVars, chatVars, quickVars, evtVars>>

\* chat: the request to the AI gateway; 429 and 402 are passed on, any other
\* failure throws into the 500 of the catch block
FnChatGateway(status) ==
    /\ req.fn = "chat"
    /\ req.pc = "gateway"
    /\ acts' = acts \cup {[kind |-> "gateway", table |-> "none", user |-> req.userId]}
    /\ req' = IF status = 200 THEN [req EXCEPT !.pc = "stream", !.status = 200]
              ELSE IF status \in {429, 402} THEN Respond(status)
              ELSE Respond(500)
    /\ UNCHANGED <<identities, owned, tie, authedDeletes, dl, relay, body, verdict>>
    /\ UNCHANGED <<accVars, swVars, decVars, chatVars, quickVars, evtVars>>

\* chat: the reply has been relayed; if (taskData && userId) insert into tasks
FnChatStreamEnd(hasTask) ==
    /\ req.fn = "chat"
    /\ req.pc = "stream"
    /\ req' = [req EXCEPT !.pc = "done"]
    /\ IF hasTask /\ req.userId # 0
       THEN /\ acts' = acts \cup {[kind |-> "taskInsert", table |-> "tasks",
                                   user |-> req.userId]}
            /\ owned' = IF req.userId \in owned["profiles"]
                        THEN [owned EXCEPT !["tasks"] = @ \cup {req.userId}]
                        ELSE owned
       ELSE UNCHANGED <<owned, acts>>
    /\ UNCHANGED <<identities, tie, authedDeletes, dl, relay, body, verdict>>
    /\ UNCHANGED <<accVars, swVars, decVars, chatVars, quickVars, evtVars>>

\* the local cleanup when the response is not ok either
DeletionSucceededAlways(status) == TRUE

\* response.ok
DeletionSucceeded(status) == status = 200

\* handleDeleteAccount: the confirmed Delete button
SettingsDelete ==
    /\ view = "settings"
    /\ dl.pc = "idle"
    /\ dl.outcome = "none"
    /\ dl' = [pc |-> "getSession", outcome |-> "none"]
    /\ UNCHANGED <<identities, owned, tie, req, acts, authedDeletes, relay, body, verdict>>
    /\ UNCHANGED <<accVars, swVars, decVars, chatVars, quickVars, evtVars>>

\* getSession: without an access token the error toast; else the POST with the
\* session's token, which the auth service may no longer verify
SettingsGetSession(tokenValid) ==
    /\ dl.pc = "getSession"
    /\ IF session.email = 0
       THEN /\ tokenValid
            /\ dl' = [pc |-> "idle", outcome |-> "error"]
            /\ notice' = "error"
            /\ UNCHANGED <<req, acts, authedDeletes>>
       ELSE /\ req.pc \in {"idle", "done"}
            /\ req.n < MaxRequests
            /\ dl' = [dl EXCEPT !.pc = "fetch"]
            /\ req' = [fn |-> "delete", header |-> "bearer", token |-> session.email,
                       pc |-> "auth", userId |-> 0, convIds |-> FALSE, status |-> 0,
                       verified |-> tokenValid, n |-> req.n + 1]
            /\ acts' = {}
            /\ authedDeletes' = IF tokenValid THEN authedDeletes \cup {session.email}
                                ELSE authedDeletes
            /\ UNCHANGED notice
    /\ UNCHANGED <<identities, owned, tie, relay, body, verdict>>
    /\ UNCHANGED accVars
    /\ UNCHANGED <<currentEmail, session, accepted, hint, view, authQueryEmail, authEmail,
                   authLoaded, sw, swOutcome, attempts, exchangeCalls>>
    /\ UNCHANGED <<decVars, chatVars, quickVars, evtVars>>

\* the response: not ok throws into the error toast; ok removes the three keys
SettingsResponse ==
    /\ dl.pc = "fetch"
    /\ req.pc = "done"
    /\ IF DeletionSucceeded(req.status)
       THEN /\ storeV2' = Absent
            /\ storeLegacy' = Absent
            /\ hint' = 0
            /\ dl' = [dl EXCEPT !.pc = "signOut"]
            /\ UNCHANGED notice
       ELSE /\ dl' = [pc |-> "idle", outcome |-> "error"]
            /\ notice' = "error"
            /\ UNCHANGED <<storeV2, storeLegacy, hint>>
    /\ UNCHANGED <<identities, owned, tie, req, acts, authedDeletes, relay, body, verdict>>
    /\ UNCHANGED <<accounts, mounted, clock, lastUpserted, upserts, initPending>>
    /\ UNCHANGED <<currentEmail, session, accepted, view, authQueryEmail, authEmail,
                   authLoaded, sw, swOutcome, attempts, exchangeCalls>>
    /\ UNCHANGED <<decVars, chatVars, quickVars, evtVars>>

\* await signOut(); the success toast; navigate("/auth"). A signOut that
\* rejects ends in the error toast of the catch block
SettingsSignOut(ok) ==
    /\ dl.pc = "signOut"
    /\ IF ok
       THEN /\ session' = NoSession
            /\ notice' = "accountDeleted"
            /\ view' = "auth"
            /\ dl' = [pc |-> "idle", outcome |-> "deleted"]
       ELSE /\ notice' = "error"
            /\ dl' = [pc |-> "idle", outcome |-> "signOutFailed"]
            /\ UNCHANGED <<session, view>>
    /\ UNCHANGED <<identities, owned, tie, req, acts, authedDeletes, relay, body, verdict>>
    /\ UNCHANGED accVars
    /\ UNCHANGED <<currentEmail, accepted, hint, authQueryEmail, authEmail, authLoaded,
                   sw, swOutcome, attempts, exchangeCalls>>
    /\ UNCHANGED <<decVars, chatVars, quickVars, evtVars>>

\* the Settings page of user 1, or of a visitor whose session is gone; both
\* users own rows in every table
BackendStart ==
    /\ storeV2 = Json(<<SessionAccount(1, ProfileName(1), 1, MaxStored)>>)
    /\ storeLegacy \in {Absent, Json(LegacyList(1, TRUE))}
    /\ accounts = <<>>
    /\ mounted = FALSE
    /\ clock = MaxStored + 1
    /\ lastUpserted = 0
    /\ upserts = 0
    /\ initPending = FALSE
    /\ currentEmail = 0
    /\ session \in {NoSession, [email |-> 1, gen |-> 1]}
    /\ accepted = [e \in Emails |-> e = session.email]
    /\ hint = 0
    /\ view = "settings"
    /\ authQueryEmail = 0
    /\ authEmail = 0
    /\ authLoaded = FALSE
    /\ notice = "none"
    /\ sw = SwIdle
    /\ swOutcome = NoOutcome
    /\ attempts = 0
    /\ exchangeCalls = 0
    /\ identities = Users
    /\ owned = [t \in Tables |-> Users]
    /\ tie \in {"cascade", "none"}
    /\ req = NoRequest
    /\ acts = {}
    /\ authedDeletes = {}
    /\ dl = DlIdle
    /\ relay = RelayIdle
    /\ body = <<>>
    /\ verdict = NoVerdict

BackendNext ==
    \/ \E fn \in {"delete", "chat"}, header \in Headers, token \in Tokens :
          Call(fn, header, token)
    \/ FnDeleteAuth
    \/ \E ok \in BOOLEAN : FnListConvs(ok)
    \/ \E ok \in BOOLEAN : FnDeleteMessages(ok)
    \/ \E oks \in CleanupOutcomes : FnCleanup(oks)
    \/ \E ok \in BOOLEAN : FnDeleteUser(ok)
    \/ FnDeleteThrows
    \/ FnChatAuth
    \/ \E valid \in BOOLEAN : FnChatBody(valid)
    \/ \E status \in Statuses : FnChatGateway(status)
    \/ \E hasTask \in BOOLEAN : FnChatStreamEnd(hasTask)
    \/ SettingsDelete
    \/ \E tokenValid \in BOOLEAN : SettingsGetSession(tokenValid)
    \/ SettingsResponse
    \/ \E ok \in BOOLEAN : SettingsSignOut(ok)

BackendInit == BackendStart /\ DecRest /\ ChatRest /\ QuickRest /\ EvtRest

SpecBackend == BackendInit /\ [][BackendNext]_vars

----------------------------------------------------------------------------
(* The chat function relaying the gateway reply to the chat client, which
   renders and saves it *)

EventLineTask == DataPrefix \o <<"{", TaskBlock, "}">>

\* replies of one to MaxLines lines: text deltas, a delta holding a task block,
\* the sentinel
TaskBodies == UNION {[1..n -> {EventLineA, EventLineTask, DoneLine}] : n \in 1..MaxLines}

\* line.includes(marker)
Includes(line, marker) ==
    \E i \in 1..(Len(line) - Len(marker) + 1) :
        SubSeq(line, i, i + Len(marker) - 1) = marker

\* what the function adds to content for one line of fullResponse
ServerLineContent(line) ==
    IF StartsWith(line, DataPrefix) /\ ~Includes(line, DoneMarker)
       /\ JsonParses(Trim(Drop(line, DataPrefixLen)))
    THEN DeltaContent(Trim(Drop(line, DataPrefixLen)))
    ELSE <<>>

\* fullResponse.split('\n') and the loop over the lines
RECURSIVE ServerContent(_)
ServerContent(text) ==
    LET k == IndexOfNL(text, 1)
    IN  IF k = 0 THEN ServerLineContent(text)
        ELSE ServerLineContent(SubSeq(text, 1, k - 1)) \o ServerContent(Drop(text, k))

\* extractTaskFromResponse(content) finds a block
ExtractsTask(content) == \E i \in 1..Len(content) : content[i] = TaskBlock

\* what the function writes to the client for a chunk of the gateway
Relayed(chunk) == chunk

\* user 1 has sent the first message of conversation 1; the function has
\* verified the token and the gateway has started to answer
TaskReplyStart ==
    /\ lines \in TaskBodies
    /\ lastNewline = TRUE
    /\ pos = 0
    /\ textBuffer = <<>>
    /\ assistantContent = <<>>
    /\ dpc = "reading"
    /\ sawDone = FALSE
    /\ run = 1
    /\ firstContent = <<>>
    /\ messages = <<UserMsg(1)>>
    /\ input = 0
    /\ isLoading = TRUE
    /\ currentConversationId = 1
    /\ conversationIdRef = 1
    /\ chatSession = TRUE
    /\ dbConversations = {1}
    /\ dbMessages = <<Row(1, UserMsg(1))>>
    /\ pendingLoads = {}
    /\ snd = SndIdle
    /\ turns = 1
    /\ chatNotice = "none"
    /\ titleCalls = <<>>
    /\ del = DelIdle
    /\ identities = Users
    /\ owned = [t \in Tables |-> IF t = "tasks" THEN {} ELSE Users]
    /\ tie = "cascade"
    /\ req = [fn |-> "chat", header |-> "bearer", token |-> 1, pc |-> "stream",
              userId |-> 1, convIds |-> FALSE, status |-> 200, verified |-> TRUE,
              n |-> 1]
    /\ acts = {[kind |-> "gateway", table |-> "none", user |-> 1]}
    /\ authedDeletes = {}
    /\ dl = DlIdle
    /\ relay = RelayIdle
    /\ body = <<>>
    /\ verdict = NoVerdict

\* chat function: reader.read() gives n characters of the gateway reply;
\* fullResponse += chunk; writer.write(value)
RelayChunk(n) ==
    /\ req.pc = "stream"
    /\ ~relay.closed
    /\ relay.pos + n <= Len(stream)
    /\ LET chunk == SubSeq(stream, relay.pos + 1, relay.pos + n)
       IN  relay' = [relay EXCEPT !.pos = @ + n, !.full = @ \o chunk,
                                  !.pipe = @ \o Relayed(chunk)]
    /\ UNCHANGED <<identities, owned, tie, req, acts, authedDeletes, dl, body, verdict>>
    /\ UNCHANGED <<accVars, swVars, decVars, chatVars, quickVars, evtVars>>

\* chat function: the gateway reply has ended; the task of the reply, if any,
\* is inserted; writer.close()
RelayEnd ==
    /\ req.pc = "stream"
    /\ ~relay.closed
    /\ relay.pos = Len(stream)
    /\ LET hasTask == ExtractsTask(ServerContent(relay.full))
       IN  /\ relay' = [relay EXCEPT !.closed = TRUE, !.taskInserted = hasTask]
           /\ owned' = IF hasTask THEN [owned EXCEPT !["tasks"] = @ \cup {req.userId}]
                       ELSE owned
           /\ acts' = IF hasTask
                      THEN acts \cup {[kind |-> "taskInsert", table |-> "tasks",
                                       user |-> req.userId]}
                      ELSE acts
    /\ req' = [req EXCEPT !.pc = "done"]
    /\ UNCHANGED <<identities, tie, authedDeletes, dl, body, verdict>>
    /\ UNCHANGED <<accVars, swVars, decVars, chatVars, quickVars, evtVars>>

\* chat client: reader.read() gives the next n characters the function wrote;
\* the inner loop; each delta is rendered into the message list
ClientRead(n) ==
    /\ dpc = "reading"
    /\ n <= Len(relay.pipe)
    /\ LET r == DrainBuffer(textBuffer \o SubSeq(relay.pipe, 1, n), assistantContent,
                            sawDone)
       IN  /\ textBuffer' = r.buf
           /\ assistantContent' = r.content
           /\ sawDone' = r.done
           /\ messages' = IF r.content # assistantContent
                          THEN ApplyDelta(messages, r.content, 1) ELSE messages
    /\ relay' = [relay EXCEPT !.pipe = Drop(@, n)]
    /\ UNCHANGED <<lines, lastNewline, pos, dpc, run, firstContent>>
    /\ UNCHANGED <<input, isLoading, currentConversationId, conversationIdRef,
                   chatSession, dbConversations, dbMessages, pendingLoads, snd, turns,
                   chatNotice, titleCalls, del>>
    /\ UNCHANGED <<identities, owned, tie, req, acts, authedDeletes, dl, body, verdict>>
    /\ UNCHANGED <<accVars, swVars, quickVars, evtVars>>

\* chat client: reader.read() answers done; the content, if any, is saved
ClientDone ==
    /\ dpc = "reading"
    /\ relay.pipe = <<>>
    /\ relay.closed
    /\ dpc' = "done"
    /\ dbMessages' = IF assistantContent # <<>>
                     THEN Append(dbMessages, Row(1, AssistantMsg(assistantContent, 1)))
                     ELSE dbMessages
    /\ isLoading' = FALSE
    /\ UNCHANGED <<lines, lastNewline, pos, textBuffer, assistantContent, sawDone, run,
                   firstContent>>
    /\ UNCHANGED <<messages, input, currentConversationId, conversationIdRef,
                   chatSession, dbConversations, pendingLoads, snd, turns, chatNotice,
                   titleCalls, del>>
    /\ UNCHANGED <<accVars, swVars, quickVars, srvVars, evtVars>>

TaskReplyNext ==
    \/ \E n \in 1..MaxChunk : RelayChunk(n)
    \/ RelayEnd
    \/ \E n \in 1..MaxChunk : ClientRead(n)
    \/ ClientDone

TaskReplyInit ==
    /\ AccInit /\ storeLegacy = Absent /\ SwRest /\ QuickRest /\ EvtRest /\ TaskReplyStart

SpecTaskReply == TaskReplyInit /\ [][TaskReplyNext]_vars

----------------------------------------------------------------------------
(* The request body of the chat client against validateMessages of the chat
   function; a message is its role and the length of its content *)

Roles == {"user", "assistant", "system"}

\* validateMessages(messages) on an array of {role, content} with string fields
validateMessages(msgs) ==
    /\ Len(msgs) # 0
    /\ Len(msgs) <= MaxMessages
    /\ \A i \in 1..Len(msgs) :
          /\ msgs[i].role \in Roles
          /\ msgs[i].len <= MaxContentLength

\* a stored conversation of n short messages, user and assistant in turn
Loaded(n) == [i \in 1..n |-> [role |-> IF i % 2 = 1 THEN "user" ELSE "assistant",
                              len |-> 1]]

\* the lengths tried for a typed message and for a reply
ContentLengths == {1, MaxContentLength, MaxContentLength + 1}

\* streamChat: newMessages = [...messages, {role: "user", content}] is kept as
\* the list and sent as the body; the function validates it
BodySend(len) ==
    /\ verdict.answer # "ok"
    /\ verdict.sends < MaxBodySends
    /\ body' = Append(body, [role |-> "user", len |-> len])
    /\ verdict' = [answer |-> IF validateMessages(body') THEN "ok" ELSE "400",
                   sends |-> verdict.sends + 1]
    /\ UNCHANGED <<identities, owned, tie, req, acts, authedDeletes, dl, relay>>
    /\ UNCHANGED <<accVars, swVars, decVars, chatVars, quickVars, evtVars>>

\* the reply of an accepted request is appended to the list
BodyReply(len) ==
    /\ verdict.answer = "ok"
    /\ body' = Append(body, [role |-> "assistant", len |-> len])
    /\ verdict' = [verdict EXCEPT !.answer = "none"]
    /\ UNCHANGED <<identities, owned, tie, req, acts, authedDeletes, dl, relay>>
    /\ UNCHANGED <<accVars, swVars, decVars, chatVars, quickVars, evtVars>>

\* the chat view with a new conversation or a loaded one
BodyStart ==
    /\ identities = Users
    /\ owned = [t \in Tables |-> Users]
    /\ tie = "cascade"
    /\ req = NoRequest
    /\ acts = {}
    /\ authedDeletes = {}
    /\ dl = DlIdle
    /\ relay = RelayIdle
    /\ body \in {Loaded(n) : n \in 0..MaxLoaded}
    /\ verdict = NoVerdict

BodyNext ==
    \/ \E len \in ContentLengths : BodySend(len)
    \/ \E len \in ContentLengths : BodyReply(len)

BodyInit ==
    /\ AccInit /\ storeLegacy = Absent /\ SwRest /\ DecRest /\ ChatRest /\ QuickRest
    /\ EvtRest /\ BodyStart

SpecBody == BodyInit /\ [][BodyNext]_vars

----------------------------------------------------------------------------
(* The auth events of AccountSwitcher: the onAuthStateChange callback, which
   awaits fetchUsername before it sets the identity and upserts the record *)

SessionEvents == {"SIGNED_IN", "TOKEN_REFRESHED", "USER_UPDATED"}

\* the session an event of this kind can carry for email e, given the session
\* before it: a sign-in starts a session, a refresh rotates the pair, an update
\* keeps it
EventSession(kind, e) ==
    IF kind = "SIGNED_IN" THEN [email |-> e, gen |-> 1]
    ELSE IF kind = "TOKEN_REFRESHED" THEN [email |-> e, gen |-> session.gen + 1]
    ELSE [email |-> e, gen |-> session.gen]

\* SIGNED_IN, TOKEN_REFRESHED or USER_UPDATED is delivered: the callback runs
\* up to `await fetchUsername(...)`
SessionEvent(kind, e) ==
    /\ mounted
    /\ delivered.n < MaxEvents
    /\ kind # "SIGNED_IN" => e = session.email
    /\ kind = "SIGNED_IN" => e # session.email
    /\ LET s == EventSession(kind, e)
       IN  /\ session' = s
           /\ delivered' = [n |-> delivered.n + 1, kind |-> kind, email |-> e,
                            gen |-> s.gen]
           /\ handlers' = handlers \cup {[seq |-> delivered.n + 1, email |-> e,
                                          gen |-> s.gen]}
    /\ UNCHANGED accVars
    /\ UNCHANGED <<currentEmail, accepted, hint, view, authQueryEmail, authEmail,
                   authLoaded, notice, sw, swOutcome, attempts, exchangeCalls>>
    /\ UNCHANGED <<decVars, chatVars, quickVars, srvVars>>

\* SIGNED_OUT is delivered: the callback clears the identity at once
SignedOutEvent ==
    /\ mounted
    /\ delivered.n < MaxEvents
    /\ session.email # 0
    /\ session' = NoSession
    /\ delivered' = [n |-> delivered.n + 1, kind |-> "SIGNED_OUT", email |-> 0, gen |-> 0]
    /\ currentEmail' = 0
    /\ UNCHANGED accVars
    /\ UNCHANGED <<accepted, hint, view, authQueryEmail, authEmail, authLoaded, notice,
                   sw, swOutcome, attempts, exchangeCalls>>
    /\ UNCHANGED handlers
    /\ UNCHANGED <<decVars, chatVars, quickVars, srvVars>>

\* fetchUsername has answered the callback of event k: setCurrent*, upsertAccount
HandlerResume(k) ==
    /\ \E h \in handlers :
          /\ h.seq = k
          /\ handlers' = handlers \ {h}
          /\ currentEmail' = h.email
          /\ clock' = clock + 1
          /\ upsertAccount(SessionAccount(h.email, fetchUsername(h.email), h.gen,
                                          clock + 1))
    /\ UNCHANGED <<storeLegacy, mounted, initPending>>
    /\ UNCHANGED <<session, accepted, hint, view, authQueryEmail, authEmail, authLoaded,
                   notice, sw, swOutcome, attempts, exchangeCalls>>
    /\ UNCHANGED delivered
    /\ UNCHANGED <<decVars, chatVars, quickVars, srvVars>>

\* the switcher is mounted for user 1, whose record is stored
EventsStart ==
    /\ storeV2 = Json(<<SessionAccount(1, fetchUsername(1), 1, MaxStored)>>)
    /\ storeLegacy = Absent
    /\ accounts = <<SessionAccount(1, fetchUsername(1), 1, MaxStored)>>
    /\ mounted = TRUE
    /\ clock = MaxStored + 1
    /\ lastUpserted = 1
    /\ upserts = 0
    /\ initPending = FALSE
    /\ currentEmail = 1
    /\ session = [email |-> 1, gen |-> 1]
    /\ accepted = [e \in Emails |-> e = 1]
    /\ hint = 0
    /\ view = "app"
    /\ authQueryEmail = 0
    /\ authEmail = 0
    /\ authLoaded = FALSE
    /\ notice = "none"
    /\ sw = SwIdle
    /\ swOutcome = NoOutcome
    /\ attempts = 0
    /\ exchangeCalls = 0
    /\ handlers = {}
    /\ delivered = NoEvent

EventsNext ==
    \/ \E kind \in SessionEvents, e \in SwitchEmails : SessionEvent(kind, e)
    \/ SignedOutEvent
    \/ \E k \in 1..MaxEvents : HandlerResume(k)

EventsInit == EventsStart /\ DecRest /\ ChatRest /\ QuickRest /\ SrvRest

SpecAuthEvents == EventsInit /\ [][EventsNext]_vars

----------------------------------------------------------------------------
(* Specification of the decoder alone *)

DecodeInit == AccInit /\ storeLegacy = Absent /\ SwRest /\ DecInit /\ ChatRest /\ QuickRest /\ SrvRest /\ EvtRest

SpecDecode == DecodeInit /\ [][DecNext]_vars

----------------------------------------------------------------------------
(* Specification of the chat session *)

ChatSessionInit ==
    /\ AccInit /\ storeLegacy = Absent /\ SwRest /\ DecRest /\ ChatInit /\ QuickRest /\ SrvRest /\ EvtRest

SpecChat == ChatSessionInit /\ [][ChatNext]_vars

----------------------------------------------------------------------------
(* A send with nobody touching the conversation list: the only reload is the
   one the effect starts when saveMessage sets the new conversation id *)

FirstSendNext ==
    \/ SetInput
    \/ HandleSend
    \/ SaveGetUser
    \/ SaveInsertConv
    \/ SaveInsertUser
    \/ GetSession
    \/ \E status \in Statuses : Fetch(status)
    \/ ChatReadLine
    \/ ChatReadRest
    \/ ChatReadError
    \/ ChatReadDone
    \/ SaveAssistant
    \/ \E c \in 1..(MaxSends + 1) : LoadQuery(c)
    \/ \E c \in 1..(MaxSends + 1) : LoadApply(c)

SpecFirstSend == ChatSessionInit /\ [][FirstSendNext]_vars

----------------------------------------------------------------------------
(* The chat session with the title calls running beside the sends *)

TitleNext ==
    \/ SetInput
    \/ HandleSend
    \/ SaveGetUser
    \/ SaveInsertConv
    \/ SaveInsertUser
    \/ GetSession
    \/ \E status \in Statuses : Fetch(status)
    \/ ChatReadRest
    \/ ChatReadError
    \/ ChatReadDone
    \/ SaveAssistant
    \/ HandleNewConversation
    \/ \E c \in 1..(MaxSends + 1) : HandleSelectConversation(c)
    \/ \E c \in 1..(MaxSends + 1) : LoadQuery(c)
    \/ \E c \in 1..(MaxSends + 1) : LoadApply(c)
    \/ \E i \in 1..MaxSends, outcome \in TitleOutcomes : TitleSettle(i, outcome)

SpecTitle == ChatSessionInit /\ [][TitleNext]_vars

----------------------------------------------------------------------------
(* The conversation sidebar: ConversationSidebar.deleteConversation beside the
   navigation of the chat view *)

\* the view reset with the comparison left out
ResetsViewAlways(current, deleted) == TRUE

\* if (currentConversationId === conversationToDelete) onNewConversation()
ResetsView(current, deleted) == current = deleted

\* two conversations are left from earlier visits
SidebarChatInit ==
    /\ messages = <<>>
    /\ input = 0
    /\ isLoading = FALSE
    /\ currentConversationId = 0
    /\ conversationIdRef = 0
    /\ chatSession = TRUE
    /\ dbConversations = {1, 2}
    /\ dbMessages = <<Row(1, UserMsg(0)), Row(1, AssistantMsg(<<"b">>, 0)),
                      Row(2, UserMsg(0))>>
    /\ pendingLoads = {}
    /\ snd = SndIdle
    /\ turns = 0
    /\ chatNotice = "none"
    /\ titleCalls = <<>>
    /\ del = DelIdle

\* confirmDelete(id) and the Delete button of the dialog: deleteConversation
\* starts with the conversation id and the current id of that render
DeleteConfirm(c) ==
    /\ del.pc = "idle"
    /\ c \in dbConversations
    /\ del' = [pc |-> "messages", conv |-> c, cur0 |-> currentConversationId,
               toast |-> "none", reset |-> FALSE]
    /\ UNCHANGED <<messages, input, isLoading, currentConversationId, conversationIdRef,
                   chatSession, dbConversations, dbMessages, pendingLoads, snd, turns,
                   chatNotice, titleCalls>>
    /\ UNCHANGED <<accVars, swVars, decVars, quickVars, srvVars, evtVars>>

\* the delete on table messages answers; on an error the toast, and return
DeleteMessages(ok) ==
    /\ del.pc = "messages"
    /\ IF ok
       THEN /\ dbMessages' = SelectSeq(dbMessages, LAMBDA r : r.conv # del.conv)
            /\ del' = [del EXCEPT !.pc = "conversation"]
       ELSE /\ del' = [del EXCEPT !.pc = "idle", !.toast = "messagesFailed"]
            /\ UNCHANGED dbMessages
    /\ UNCHANGED <<messages, input, isLoading, currentConversationId, conversationIdRef,
                   chatSession, dbConversations, pendingLoads, snd, turns, chatNotice,
                   titleCalls>>
    /\ UNCHANGED <<accVars, swVars, decVars, quickVars, srvVars, evtVars>>

\* the delete on table conversations answers: the error toast, or the success
\* toast and onNewConversation() when the deleted conversation was the current
\* one of the render the call started in
DeleteConversation(ok) ==
    /\ del.pc = "conversation"
    /\ IF ok
       THEN /\ dbConversations' = dbConversations \ {del.conv}
            /\ IF ResetsView(del.cur0, del.conv)
               THEN /\ messages' = <<>>
                    /\ currentConversationId' = 0
                    /\ conversationIdRef' = 0
                    /\ del' = [del EXCEPT !.pc = "idle", !.toast = "deleted",
                                          !.reset = TRUE]
               ELSE /\ del' = [del EXCEPT !.pc = "idle", !.toast = "deleted"]
                    /\ UNCHANGED <<messages, currentConversationId, conversationIdRef>>
       ELSE /\ del' = [del EXCEPT !.pc = "idle", !.toast = "failed"]
            /\ UNCHANGED <<dbConversations, messages, currentConversationId,
                           conversationIdRef>>
    /\ UNCHANGED <<input, isLoading, chatSession, dbMessages, pendingLoads, snd, turns,
                   chatNotice, titleCalls>>
    /\ UNCHANGED <<accVars, swVars, decVars, quickVars, srvVars, evtVars>>

SidebarNext ==
    \/ HandleNewConversation
    \/ \E c \in 1..(MaxSends + 1) : HandleSelectConversation(c)
    \/ \E c \in 1..(MaxSends + 1) : LoadQuery(c)
    \/ \E c \in 1..(MaxSends + 1) : LoadApply(c)
    \/ \E c \in 1..(MaxSends + 1) : DeleteConfirm(c)
    \/ \E ok \in BOOLEAN : DeleteMessages(ok)
    \/ \E ok \in BOOLEAN : DeleteConversation(ok)

SidebarInit ==
    /\ AccInit /\ storeLegacy = Absent /\ SwRest /\ DecRest /\ SidebarChatInit /\ QuickRest /\ SrvRest /\ EvtRest

SpecSidebar == SidebarInit /\ [][SidebarNext]_vars

----------------------------------------------------------------------------
(* Specification of the chat component without persistence *)

QuickChatInit ==
    /\ AccInit /\ storeLegacy = Absent /\ SwRest /\ DecRest /\ ChatRest /\ QuickRest /\ SrvRest /\ EvtRest

SpecQuickChat == QuickChatInit /\ [][QuickNext]_vars

----------------------------------------------------------------------------
(* loadAccountsFromStorage on any content of the two keys: absent, text that
   does not parse, or an array; legacy arrays hold named, unnamed and invalid
   entries *)

\* text that JSON.parse rejects; val is what the damaged text was written from
Corrupt(list) == [raw |-> "corrupt", val |-> list]

\* a legacy entry without a string email
InvalidEntry == [email |-> 0, username |-> 0, lastUsed |-> 0]

LegacyEntryKinds(i) == {LegacyEntry(i, TRUE, i), LegacyEntry(i, FALSE, i), InvalidEntry}

LegacyInputs ==
    UNION {{l \in [1..n -> UNION {LegacyEntryKinds(i) : i \in 1..n}] :
              \A i \in 1..n : l[i] \in LegacyEntryKinds(i)} : n \in 0..MaxLegacyLen}

V2Sample == <<SessionAccount(1, LocalPart(1), 1, 1)>>

LoadV2Stores == {Absent, Json(<<>>), Corrupt(V2Sample), Json(V2Sample)}

LoadLegacyStores ==
    {Absent} \cup {Json(l) : l \in LegacyInputs} \cup {Corrupt(l) : l \in LegacyInputs}

LoadInit ==
    /\ storeV2 \in LoadV2Stores
    /\ storeLegacy \in LoadLegacyStores
    /\ accounts = <<>>
    /\ mounted = FALSE
    /\ clock = MaxStored + 1
    /\ lastUpserted = 0
    /\ upserts = 0
    /\ initPending = FALSE
    /\ SwRest /\ DecRest /\ ChatRest /\ QuickRest /\ SrvRest /\ EvtRest

LoadNext ==
    \/ Mount
    \/ Reload

SpecLoad == LoadInit /\ [][LoadNext]_vars

----------------------------------------------------------------------------
(* Claims *)

DistinctEmails(list) ==
    \A i, j \in 1..Len(list) : list[i].email = list[j].email => i = j

\* C1: after any sequence of upsert calls, from any stored list the program can
\* produce (a migrated legacy list included), the persisted account list has at
\* most 5 entries, no two entries with the same email, and the most recently
\* upserted entry in first position.
C1_PersistedBoundedDedupedNewestFirst ==
    /\ Len(storeV2.val) <= MaxStored
    /\ DistinctEmails(storeV2.val)
    /\ lastUpserted # 0 =>
         /\ storeV2.raw = "json"
         /\ Len(storeV2.val) >= 1
         /\ storeV2.val[1].email = lastUpserted

\* a full migrated list received an upsert of an address it did not hold:
\* the cap evicted an entry and the new one is first
C1_Witness ==
    /\ Len(safeJsonParse(storeLegacy)) = MaxStored
    /\ lastUpserted = NumEmails
    /\ Len(storeV2.val) = MaxStored
    /\ upserts >= 2

\* C3: a switch attempt whose target has a refresh credential the collaborator
\* accepts (setSession or refreshSession answered a session) writes no
\* pending-switch hint, never leaves for the sign-in view, and ends ACTIVE for
\* the target, with the collaborator's session being the target's.
C3_AcceptedCredentialSwitchesWithoutSignIn ==
    [][(sw.pc # "idle" /\ (sw.setRes = "ok" \/ sw.refRes = "ok")) =>
         /\ hint' = hint
         /\ view' = "app"
         /\ sw'.pc = "idle" =>
              /\ swOutcome'.result = "ACTIVE"
              /\ swOutcome'.email = sw.account.email
              /\ session'.email = sw.account.email]_vars

\* a switch ended ACTIVE after setSession failed and refreshSession succeeded
C3_Witness ==
    /\ swOutcome.result = "ACTIVE"
    /\ swOutcome.setRes = "error"
    /\ swOutcome.refRes = "ok"
    /\ session.email = swOutcome.email
    /\ hint = 0

\* C4: a switch attempt on a stored account without a refresh credential (every
\* record of the legacy migration is one) stores the target email as the
\* pending-switch hint, goes to the sign-in view pre-filled with that email, and
\* makes neither a setSession nor a refreshSession call.
C4_NoCredentialAlwaysInteractive ==
    [][/\ \A i \in 1..Len(accounts) :
            accounts[i].userId = accounts[i].email => accounts[i].tokens.refreshToken = 0
       /\ \A i \in 1..Len(recentAccounts) :
            (attempts' = attempts + 1 /\ swOutcome'.n = attempts'
             /\ swOutcome'.email = recentAccounts[i].email
             /\ recentAccounts[i].tokens.refreshToken = 0) =>
              /\ hint' = recentAccounts[i].email
              /\ view' = "auth"
              /\ authQueryEmail' = recentAccounts[i].email
              /\ swOutcome'.result = "SIGNIN"
              /\ sw'.pc = "idle"
              /\ exchangeCalls' = exchangeCalls
       /\ sw'.pc # "idle" => sw'.account.tokens.refreshToken # 0
       /\ exchangeCalls' # exchangeCalls => sw.account.tokens.refreshToken # 0]_vars

\* a migrated record was chosen and the attempt ended on the sign-in view
C4_Witness ==
    /\ swOutcome.result = "SIGNIN"
    /\ swOutcome.setRes = "none"
    /\ swOutcome.refRes = "none"
    /\ hint = swOutcome.email
    /\ view = "auth"
    /\ authQueryEmail = swOutcome.email
    /\ exchangeCalls = 0
    /\ storeLegacy # Absent
    /\ \E i \in 1..Len(storeV2.val) :
         /\ storeV2.val[i].email = swOutcome.email
         /\ storeV2.val[i].userId = swOutcome.email

\* the deltas of the event lines of a body, concatenated in stream order
EventDelta(line) ==
    IF line = EventLineA THEN <<"a">>
    ELSE IF line = EventLineB THEN <<"b">>
    ELSE <<>>

RECURSIVE ExpectedContent(_)
ExpectedContent(ls) ==
    IF Len(ls) = 0 THEN <<>> ELSE EventDelta(ls[1]) \o ExpectedContent(Tail(ls))

\* the body ends with the [DONE] line and holds no other
EndsWithSentinel(ls) ==
    /\ Len(ls) >= 1
    /\ ls[Len(ls)] = DoneLine
    /\ \A i \in 1..(Len(ls) - 1) : ls[i] # DoneLine

\* C2: for a body of comment, blank, event and malformed lines ended by the
\* [DONE] sentinel, however it is chunked, the final assistant content is the
\* concatenation of the deltas of all event lines in stream order (malformed
\* lines do not stop the decoding), and a replay of the same body against a
\* fresh session ends with the same content.
C2_DecodeConcatenatesValidDeltas ==
    (dpc = "done" /\ EndsWithSentinel(lines)) =>
        /\ assistantContent = ExpectedContent(lines)
        /\ run = 2 => assistantContent = firstContent

\* the interleaved reply was decoded twice: both deltas, the one after the
\* malformed line included
C2_Witness ==
    /\ lines = ScenarioBody
    /\ dpc = "done"
    /\ run = 2
    /\ firstContent = <<"a", "b">>
    /\ assistantContent = <<"a", "b">>

\* C7: once the [DONE] line of a response has been decoded, no later line of
\* that response adds to the assistant content, however the body is chunked.
C7_NothingDecodedAfterSentinel ==
    [][(sawDone /\ run' = run) => assistantContent' = assistantContent]_vars

\* the rows of table messages that belong to send t, in insertion order
RowsOfTurn(rows, t) == SelectSeq(rows, LAMBDA r : r.turn = t)

\* C5: every assistant reply in table messages sits in the conversation that
\* the user message of the same send was saved in before it; it is never saved
\* in a conversation that became current after the send started.
C5_ReplySavedWithItsUserMessage ==
    \A i \in 1..Len(dbMessages) :
        (dbMessages[i].role = "assistant" /\ dbMessages[i].turn > 0)
        => \E j \in 1..(i - 1) :
              /\ dbMessages[j].role = "user"
              /\ dbMessages[j].turn = dbMessages[i].turn
              /\ dbMessages[j].conv = dbMessages[i].conv

\* C6: a send started without a valid session never sets the loading flag and
\* makes no call other than the session lookup: no user lookup, no insert, no
\* title request, no completion request.
C6_NoSessionAbortsBeforeAnyCall ==
    (snd.pc # "idle" /\ ~snd.hadSession)
    => /\ ~isLoading
       /\ snd.calls \subseteq {"getSession", "getUser"}

C9_RefusedRequestLeavesNoReply ==
    (snd.pc = "done" /\ snd.status \in {429, 402})
    => /\ chatNotice = (IF snd.status = 429 THEN "rate" ELSE "payment")
       /\ ~isLoading
       /\ snd.fetches = 1
       /\ "insertAssistant" \notin snd.calls
       /\ \A i \in 1..Len(messages) :
             ~(messages[i].role = "assistant" /\ messages[i].turn = snd.turn)
       /\ \A i \in 1..Len(dbMessages) :
             ~(dbMessages[i].role = "assistant" /\ dbMessages[i].turn = snd.turn)

C9_Witness ==
    /\ snd.pc = "done" /\ snd.status = 429
    /\ chatNotice = "rate"
    /\ messages # <<>>

\* C10: at most one send is in flight at any time, whether it was started by
\* the send button or by a quick-action button.
C10_AtMostOneSendInFlight == Cardinality(QuickInFlight) <= 1

\* C11: a send whose steps are all over has left the loading state and did not
\* end in a rejection that nothing handled, whichever awaited call failed.
C11_FinishedSendLeftLoading ==
    (snd.pc \in {"done", "rejected"}) => (~isLoading /\ snd.pc = "done")

\* C12: an attempt that went past the test for a refresh credential ends
\* either ACTIVE, or on the interactive path with the hint stored, the error
\* notice shown and the view at sign-in, whichever awaited call failed.
C12_AttemptEndsActiveOrInteractive ==
    [][(sw.pc # "idle" /\ swOutcome' # swOutcome)
       => \/ swOutcome'.result = "ACTIVE"
          \/ /\ swOutcome'.result = "SIGNIN"
             /\ hint' = swOutcome'.email
             /\ notice' = "error"
             /\ view' = "auth"
      ]_vars

\* C13: a sign-out that ends the session of the active identity leaves every
\* stored record in place, the record of that identity without its credential
\* pair and the records of the other identities as they were.
C13_SignOutClearsOnlyTheCredentialPair ==
    [][(notice' = "signOut" /\ session.email # 0 /\ session'.email = 0)
       => LET before == safeJsonParse(storeV2)
              after  == safeJsonParse(storeV2')
          IN  /\ Len(after) = Len(before)
              /\ \A i \in 1..Len(before) :
                    IF before[i].email = session.email
                    THEN /\ after[i].email = before[i].email
                         /\ after[i].tokens = NoTokens
                    ELSE after[i] = before[i]
      ]_vars

\* the entries of a legacy array that pass the filter of the migration
ValidLegacy(store) == SelectSeq(store.val, LAMBDA a : a.email # 0)

\* C14: a load that finds the current store absent or empty and a legacy array
\* with N <= 5 valid entries returns N records in the order of those entries,
\* each with the entry's email, a username that is the stored one or else the
\* local part of the email and is not empty, and no credential pair; the
\* current store then holds exactly that list.
C14_LegacyLoadKeepsEveryEntry ==
    [][(~mounted /\ mounted'
        /\ storeV2 \in {Absent, Json(<<>>)}
        /\ storeLegacy.raw = "json"
        /\ Len(ValidLegacy(storeLegacy)) <= MaxStored)
       => LET valid == ValidLegacy(storeLegacy)
          IN  /\ Len(accounts') = Len(valid)
              /\ \A i \in 1..Len(valid) :
                    /\ accounts'[i].email = valid[i].email
                    /\ accounts'[i].username # 0
                    /\ accounts'[i].username = IF valid[i].username # 0
                                               THEN valid[i].username
                                               ELSE LocalPart(valid[i].email)
                    /\ accounts'[i].tokens = NoTokens
              /\ safeJsonParse(storeV2') = accounts'
      ]_vars

C14_Witness ==
    /\ mounted
    /\ Len(ValidLegacy(storeLegacy)) = MaxStored
    /\ Len(accounts) = MaxStored
    /\ storeV2 = Json(accounts)
    /\ accounts[1].tokens = NoTokens
    /\ \E i \in 1..MaxStored : accounts[i].username = LocalPart(accounts[i].email)

\* C15 as stated: a load that finds text that does not parse under either key
\* returns the empty list.
C15_ParseFailureGivesEmptyList ==
    [][(~mounted /\ mounted' /\ (storeV2.raw = "corrupt" \/ storeLegacy.raw = "corrupt"))
       => accounts' = <<>>
      ]_vars

\* C15 amended: text that does not parse is read as an empty store. The load
\* returns the empty list when the other key yields no record either, the
\* current list when only the legacy text fails to parse, and the migrated
\* legacy entries when only the current text fails to parse.
C15_ParseFailureReadAsEmptyStore ==
    [][(~mounted /\ mounted')
       => /\ (storeV2.raw = "corrupt"
              /\ (storeLegacy.raw # "json" \/ ValidLegacy(storeLegacy) = <<>>))
             => accounts' = <<>>
          /\ (storeLegacy.raw = "corrupt"
              /\ (storeV2.raw # "json" \/ storeV2.val = <<>>))
             => /\ accounts' = <<>>
                /\ storeV2' = storeV2
          /\ (storeLegacy.raw = "corrupt" /\ storeV2.raw = "json" /\ storeV2.val # <<>>)
             => /\ accounts' = storeV2.val
                /\ storeV2' = storeV2
          /\ (storeV2.raw = "corrupt" /\ storeLegacy.raw = "json")
             => LET valid == ValidLegacy(storeLegacy)
                IN  /\ Len(accounts') = Min(Len(valid), MaxStored)
                    /\ \A i \in 1..Len(accounts') : accounts'[i].email = valid[i].email
      ]_vars

C15_Witness ==
    /\ mounted
    /\ storeV2.raw = "corrupt"
    /\ storeV2.val # <<>>
    /\ storeLegacy.raw = "corrupt"
    /\ storeLegacy.val # <<>>
    /\ accounts = <<>>

HasEmail(list, e) == \E i \in 1..Len(list) : list[i].email = e

\* the positions of the records of a list whose email another list lacks
Dropped(before, after) == {i \in 1..Len(before) : ~HasEmail(after, before[i].email)}

C17_SetSessionFirstRefreshOnlyAsFallback ==
    [][/\ (sw'.setRes # sw.setRes /\ sw'.pc # "idle")
          => /\ sw.setRes = "none" /\ sw.refRes = "none"
             /\ sw.account.tokens.accessToken # 0
             /\ exchangeCalls' = exchangeCalls + 1
       /\ (sw'.refRes # sw.refRes /\ sw'.pc # "idle")
          => /\ sw.refRes = "none"
             /\ sw.session.email = 0
             /\ \/ sw.setRes = "error"
                \/ sw.setRes = "none" /\ sw.account.tokens.accessToken = 0
             /\ exchangeCalls' = exchangeCalls + 1
       /\ exchangeCalls' # exchangeCalls
          => /\ exchangeCalls' = exchangeCalls + 1
             /\ (sw'.setRes # sw.setRes) # (sw'.refRes # sw.refRes)
      ]_vars

\* setSession answered an error, refreshSession a session, and the attempt
\* ended ACTIVE after those two calls
C17_Witness ==
    /\ swOutcome.result = "ACTIVE"
    /\ swOutcome.setRes = "error"
    /\ swOutcome.refRes = "ok"
    /\ exchangeCalls = 2
    /\ attempts = 1

C19_OneAssistantMessageAfterItsUserMessage ==
    [][(snd.pc = "streaming" /\ snd'.pc \in {"saveAssistant", "done"}
        /\ dpc' = "done" /\ assistantContent' # <<>>
        /\ snd'.isNew /\ currentConversationId' = snd'.convId)
       => /\ Len(messages') >= 2
          /\ messages'[Len(messages')] = AssistantMsg(assistantContent', snd'.turn)
          /\ messages'[Len(messages') - 1] = UserMsg(snd'.turn)
          /\ \A i \in 1..(Len(messages') - 1) :
                ~(messages'[i].role = "assistant" /\ messages'[i].turn = snd'.turn)
      ]_vars

\* C20: when a read of the stream fails after a delta was decoded, the failure
\* notice is shown, the message list still ends with the assistant message
\* holding the content accumulated so far, and table messages holds no assistant
\* message of that send.
C20_FailedStreamKeepsPartialReply ==
    [][(snd.pc = "streaming" /\ snd'.pc = "done" /\ snd'.outcome = "error"
        /\ assistantContent # <<>>)
       => /\ chatNotice' = "error"
          /\ Len(messages') >= 1
          /\ messages'[Len(messages')].role = "assistant"
          /\ messages'[Len(messages')].content = assistantContent
          /\ \A i \in 1..Len(dbMessages') :
                ~(dbMessages'[i].role = "assistant" /\ dbMessages'[i].turn = snd.turn)
      ]_vars

\* the title calls fired for a conversation
TitleCount(calls, c) == Cardinality({i \in 1..Len(calls) : calls[i].conv = c})

C22_HintConsumedByTheLoadThatReadsIt ==
    [][/\ (authLoaded' /\ ~authLoaded)
          => /\ hint' = 0
             /\ authEmail' = IF authQueryEmail # 0 THEN authQueryEmail ELSE hint
       /\ (hint # 0 /\ hint' = 0) => (view = "auth" /\ authLoaded' /\ ~authLoaded)
       /\ (hint' # 0 /\ hint' # hint) => (view = "app" /\ view' = "auth" /\ ~authLoaded')
       /\ (view' = "auth" /\ authLoaded') => hint' = 0
      ]_vars

\* a switch attempt stored the hint and the sign-in view, loaded, shows the
\* email of that attempt with the key gone
C22_Witness ==
    /\ swOutcome.result = "SIGNIN"
    /\ view = "auth"
    /\ authLoaded
    /\ authEmail = swOutcome.email
    /\ authEmail # 0
    /\ hint = 0

C27_MessagesFirstThenRecordThenReset ==
    [][/\ dbConversations' # dbConversations
          => /\ del.pc = "conversation"
             /\ dbConversations' = dbConversations \ {del.conv}
             /\ \A i \in 1..Len(dbMessages) : dbMessages[i].conv # del.conv
             /\ del'.toast = "deleted"
       /\ dbMessages' # dbMessages
          => /\ del.pc = "messages"
             /\ del.conv \in dbConversations'
             /\ del'.pc = "conversation"
       /\ (del'.reset /\ ~del.reset)
          => /\ del.cur0 = del.conv
             /\ del.conv \in dbConversations /\ del.conv \notin dbConversations'
             /\ messages' = <<>> /\ currentConversationId' = 0
       /\ (del.pc # "idle" /\ del'.pc = "idle" /\ ~del'.reset)
          => UNCHANGED <<messages, currentConversationId>>
       /\ (del.pc # "idle" /\ del'.toast \in {"messagesFailed", "failed"})
          => /\ del'.pc = "idle"
             /\ UNCHANGED <<dbConversations, dbMessages, messages, currentConversationId>>
      ]_vars

\* the current conversation was deleted, messages and record, and the view reset
C27_Witness ==
    /\ del.pc = "idle"
    /\ del.reset
    /\ del.conv = 1
    /\ dbConversations = {2}
    /\ \A i \in 1..Len(dbMessages) : dbMessages[i].conv = 2
    /\ currentConversationId = 0
    /\ messages = <<>>

\* C23: the step in which handleDeleteAccount learns the answer removes the
\* three keys when the answer is a success and touches neither keys, session
\* nor view when it is not; without a session no request is made and nothing is
\* touched; the keys and the session change in no other way, and a deletion
\* that ended well leaves all three keys absent and the user signed out.
C23_LocalStateGoneOnlyAfterSuccess ==
    [][/\ (dl.pc = "fetch" /\ dl'.pc # "fetch")
          => IF req.status = 200
             THEN storeV2' = Absent /\ storeLegacy' = Absent /\ hint' = 0
             ELSE /\ UNCHANGED <<storeV2, storeLegacy, hint, session, view>>
                  /\ dl'.outcome = "error"
       /\ (dl.pc = "getSession" /\ dl'.pc # "getSession" /\ session.email = 0)
          => /\ UNCHANGED <<storeV2, storeLegacy, hint, session, view, req>>
             /\ dl'.outcome = "error"
       /\ <<storeV2, storeLegacy, hint, session, view>>' # <<storeV2, storeLegacy, hint, session, view>>
          => ((dl.pc = "fetch" /\ req.pc = "done" /\ req.status = 200) \/ dl.pc = "signOut")
       /\ dl'.outcome = "deleted"
          => /\ storeV2' = Absent /\ storeLegacy' = Absent /\ hint' = 0
             /\ session' = NoSession
      ]_vars

\* the endpoint answered success, the keys are gone and the user is signed out
C23_Witness ==
    /\ dl.outcome = "deleted"
    /\ req.fn = "delete" /\ req.status = 200
    /\ storeV2 = Absent /\ storeLegacy = Absent /\ hint = 0
    /\ session = NoSession
    /\ view = "auth"
    /\ 1 \notin identities

\* C24: when delete-account answers success, the identity is deleted and it
\* owns no row in any of the six tables.
C24_SuccessLeavesNoRow ==
    (req.fn = "delete" /\ req.pc = "done" /\ req.status = 200)
    => /\ req.userId \notin identities
       /\ \A t \in Tables : req.userId \notin owned[t]

C26_NoTaskBlockShownOrSaved ==
    /\ \A i \in 1..Len(messages) :
          messages[i].role = "assistant" => ~ExtractsTask(messages[i].content)
    /\ \A i \in 1..Len(dbMessages) :
          dbMessages[i].role = "assistant" => ~ExtractsTask(dbMessages[i].content)

\* C30: no body the chat client sends is answered 400 by validateMessages.
C30_ClientBodyAlwaysValid ==
    verdict.answer # "400"

\* C29: once every callback has finished, the identity shown is the one of
\* the last event delivered (none after SIGNED_OUT) and the first stored record
\* carries that event's credential pair; and while SIGNED_OUT is the last
\* event delivered no callback sets the identity or writes the stored list.
C29_StateFollowsLastEvent ==
    [][/\ (handlers' = {} /\ delivered'.n > 0)
          => IF delivered'.kind = "SIGNED_OUT" THEN currentEmail' = 0
             ELSE /\ currentEmail' = delivered'.email
                  /\ storeV2'.val[1].email = delivered'.email
                  /\ storeV2'.val[1].tokens = TokensOf(delivered'.gen)
       /\ (delivered.kind = "SIGNED_OUT" /\ delivered' = delivered)
          => (currentEmail' = 0 /\ storeV2' = storeV2)
      ]_vars

====
